------------------------------ MODULE MCScanTail ------------------------------
(* Instances of the tail of a scan run for TLC.                            *)
EXTENDS ScanTailProps

CONSTANTS r1, r2, api, web, c1, p1, p2

Svc(n, t) == [name |-> n, type |-> t]

Calls(token, sure) ==
  {[source |-> web, target |-> api, token |-> token, sure |-> sure]}

(* Two services with a call; one of another type alone, with the same call *)
(* spelled otherwise and with less confidence, which reaches the other     *)
(* repository's service once its own is gone.  The other repository        *)
(* reports a call of this one's service, or none.                          *)
MCFindings ==
  [r \in {r1, r2} |->
     IF r = r1
     THEN {[services |-> {Svc(api, "s"), Svc(web, "s")},
            calls |-> Calls("nats", TRUE)],
           [services |-> {Svc(web, "l")}, calls |-> Calls("NATS", FALSE)]}
     ELSE {[services |-> {Svc(api, "s")}, calls |-> {}],
           [services |-> {Svc(api, "s")}, calls |-> Calls("nats", TRUE)]}]

Id(r, n) == [repo |-> r, name |-> n]

(* A service of each kind of fate, a call that is moved to the other       *)
(* repository's service.                                                   *)
MCOverrides ==
  {NoOverride,
   [does |-> "delete", service |-> Id(r1, api)],
   [does |-> "rename", service |-> Id(r2, api), name |-> web],
   [does |-> "move", call |-> <<Id(r1, web), Id(r1, api), "nats">>,
    source |-> Id(r1, web), target |-> Id(r2, api)]}

MCSets == {{r1, r2}}
MCTrees == {{api, web}, {api}}
MCRemovals == {{}, {api}}

=============================================================================
