------------------------------- MODULE DomainMap -------------------------------
(***************************************************************************)
(* --dns_server_for_domain: which upstream a name is sent to.  A name is   *)
(* the sequence of its labels, the root << >>; canonicalize() puts labels  *)
(* in lower case (the dot it appends is the end of the sequence).  The     *)
(* flag is a sequence of entries; one without a colon, or with nothing in  *)
(* front of it, has None for what it lacks.                                *)
(***************************************************************************)
EXTENDS Naturals, Sequences, FiniteSets, FiniteSetsExt

CONSTANTS
    Flag,         \* the entries, as written
    Lower,        \* Lower[l]: label l in lower case
    None

Labels == DOMAIN Lower

ASSUME DomainAssumption ==
    /\ Lower \in [Labels -> Labels]
    /\ Len(Flag) \in Nat /\ DOMAIN Flag = 1..Len(Flag)
    /\ \A i \in DOMAIN Flag : Flag[i].domain \in Seq(Labels) \cup {None}

Canonicalize(name) == [i \in DOMAIN name |-> Lower[name[i]]]

\* fromString(): entries that are not domain:address are skipped, a later entry
\* for the same domain replaces an earlier one.
Written == {i \in DOMAIN Flag : Flag[i].domain # None /\ Flag[i].addr # None}
Keys    == {Canonicalize(Flag[i].domain) : i \in Written}
ValueOf(key) ==
    Flag[Max({i \in Written : Canonicalize(Flag[i].domain) = key})].addr

\* countLabels() counts dots, so the root has one.
CountLabels(key) == IF key = << >> THEN 1 ELSE Len(key)

\* isSubDomain() compares the end of the name and wants a dot in front of it: nothing
\* but the root is below the root.
IsSubDomain(name, key) ==
    \/ name = key
    \/ /\ key # << >> /\ Len(key) < Len(name)
       /\ \A i \in DOMAIN key : key[i] = name[Len(name) - Len(key) + i]

\* Mutant: the first match is taken.
FirstOf(name, best, key) ==
    IF IsSubDomain(name, key) /\ best.count = 0
    THEN [count |-> CountLabels(key), val |-> ValueOf(key)] ELSE best

\* One turn of the loop in getMostSpecific().
BetterOf(name, best, key) ==
    IF IsSubDomain(name, key) /\ CountLabels(key) > best.count
    THEN [count |-> CountLabels(key), val |-> ValueOf(key)] ELSE best

\* The orders in which map_, a hash table, may give its entries.
Orders == {o \in [1..Cardinality(Keys) -> Keys] : \A key \in Keys : \E i \in DOMAIN o : o[i] = key}

GetMostSpecific(name, order) ==
    LET best[i \in 0..Len(order)] ==
            IF i = 0 THEN [count |-> 0, val |-> None]
            ELSE BetterOf(Canonicalize(name), best[i - 1], order[i])
    IN  best[Len(order)].val

-------------------------------------------------------------------------------
\* What the name should be sent to: the last entry for the nearest of its ancestors
\* that has one, None if none has.  The root is an ancestor of itself only.
Suffix(name, k) == SubSeq(name, k, Len(name))
Ancestors(name) == {k \in {1} \cup DOMAIN name : Canonicalize(Suffix(name, k)) \in Keys}

Nearest(name) ==
    IF Ancestors(name) = {} THEN None
    ELSE ValueOf(Canonicalize(Suffix(name, Min(Ancestors(name)))))
===============================================================================
