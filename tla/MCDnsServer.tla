----------------------------- MODULE MCDnsServer -----------------------------
(* A udpWorker() and the io_context thread, pools of one worker and queues of *)
(* one.                                                                       *)
EXTENDS DnsServer

CONSTANTS u1, io, r1, r2, r3, r4

Udp3 == {r1, r2, r3}
Udp2 == {r1, r2}
Tcp2 == {r3, r4}
Tcp1 == {r4}

\* eng.corp is given twice, in different case, around an entry for corp; the root's
\* is for the root only.
MCFlag == << [domain |-> <<"Eng", "corp">>, addr |-> "old"],
             [domain |-> <<"corp">>, addr |-> "hq"],
             [domain |-> <<"org">>, addr |-> None],
             [domain |-> << >>, addr |-> "root"],
             [domain |-> <<"eng", "Corp">>, addr |-> "new"] >>
MCLower == [l \in {"corp", "Corp", "eng", "Eng", "www", "org", "bad"} |->
               CASE l = "Corp" -> "corp" [] l = "Eng" -> "eng" [] OTHER -> l]

Deep  == <<"www", "Eng", "corp">>
Plain == <<"www", "eng", "org">>
Bad   == <<"bad">>
AllNames  == {Deep, Plain, Bad}
OneName   == {Deep}
MCBad     == {Bad} \cap Names
MCWorkers == {u1}
===============================================================================
