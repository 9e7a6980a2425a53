------------------------------ MODULE AnswerStore ------------------------------
(***************************************************************************)
(* What a caller of CachingResolver may rely on, without tiers, threads,   *)
(* locks, refreshes or evictions: a store of answers that never change.    *)
(* An answer enters it at the moment it is received, with an expiry one    *)
(* lifetime from then; it may be lost at any time; and it is offered only  *)
(* to those who ask for its name, or one the store takes for the same,     *)
(* until Grace after its expiry at most.                                   *)
(***************************************************************************)
EXTENDS Naturals

CONSTANTS
    Names,     \* what can be asked
    Class,     \* names n and m with Class[n] = Class[m] are not told apart
    Longest,   \* no answer has a longer lifetime
    Grace      \* how long an expired answer may still be given

VARIABLES
    now,       \* the clock
    known,     \* the answers in the store: records with key, ttl and exp
    offered    \* offered[n]: the answers that who asks for n may get

Offer ==
    \A n \in Names : \A a \in offered[n] :
        a \in known /\ Class[a.key] = Class[n] /\ now < a.exp + Grace

SInit == now = 0 /\ known = {}

\* One answer is received; others may be lost to make room for it.
Learn(a) ==
    /\ a.ttl <= Longest /\ a.exp = now + a.ttl
    /\ known' \subseteq known \cup {a}
    /\ now' = now

Lose ==
    /\ known' \subseteq known
    /\ now' = now

Pass ==
    /\ now' = now + 1
    /\ known' = known

SNext == Pass \/ Lose \/ \E a \in known' : Learn(a)

\* What is offered may change at any moment, as long as Offer holds.
SSpec == SInit /\ [][SNext]_<<now, known>> /\ []Offer
===============================================================================
