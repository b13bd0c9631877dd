----------------------------- MODULE MCExposure -----------------------------
(***************************************************************************)
(* Instances of Exposure: hostnames and failures.                          *)
(***************************************************************************)
EXTENDS Exposure, TLC

CONSTANTS n1, n2,           \* two projects
          host1,            \* the one hostname of n1
          bare2, fqdn2        \* name and FQDN of n2

ThreeHosts == {host1, bare2, fqdn2}
BareNames == (n1 :> host1) @@ (n2 :> bare2)
FqdnNames == (n1 :> host1) @@ (n2 :> fqdn2)
GivenDomains == (n1 :> {host1}) @@ (n2 :> {fqdn2})

ProcSymmetry == Permutations(Procs)

\* What leads to the bare name of n2 is written and never read, by any action
\* or property: states that differ in it only need not be told apart.  Nor need
\* those that differ in a lost route of a hostname that no row records: a row only
\* records it once route add has made the route again.
Seen == <<rows, cmd, server, [h \in Hosts \ {bare2} |-> <<routes[h], dns[h]>>],
          {h \in lost : \E n \in Names : rows[n].domain = h}, rules, restored>>

\* For properties that speak of rows, commands and rules only.
SeenOfPorts == <<rows, cmd, server, rules, restored>>

\* All but that the delete of OpenPort fails, which leaves a rule twice.
AllFailures == Ops \X {"register", "boot", "route", "unroute", "dns", "undns",
                       "forward", "unforward", "save", "unrow"}

\* Failures after which the code leaves rows and host in agreement.
CleanedUpFailures ==
    ({"deploy", "clone"} \X {"register", "boot", "open"})
       \cup {<<"load", "register">>, <<"load", "boot">>, <<"unfreeze", "boot">>,
             <<"port open", "open">>, <<"port open", "save">>}
=============================================================================
