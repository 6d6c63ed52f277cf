-------------------------- MODULE FindingsContract --------------------------
(***************************************************************************)
(* The contract between the scanning agents and the map, scan/contract.js:  *)
(* what is taken from the text an agent returns, what of it is refused as  *)
(* a whole, dropped, or rewritten, and what is left to persist.            *)
(*                                                                         *)
(* A value of the wrong type is Malformed, a missing field Absent, JSON's  *)
(* null Null, a text that JSON.parse refuses Unparseable. A file is what   *)
(* its spelling says: a path, absolute or not, and a symbol after a colon. *)
(* Warnings are only logged and are left out.                              *)
(***************************************************************************)
EXTENDS Naturals, Sequences, SequencesExt

CONSTANTS Malformed, Absent, Null, Unparseable

ValidConfidence   == {"high", "low"}
ValidRoles        == {"request", "response", "event_payload"}
ValidServiceTypes == {"service", "library", "sdk", "infra"}
ValidCrossings    == {"external", "sdk", "internal", "cross-service"}

Invalid == [valid |-> FALSE]

(***************************************************************************)
(* Services: a wrong name or confidence refuses the findings, anything     *)
(* else drops the service.                                                 *)
(***************************************************************************)

ServiceRefused(s) ==
  \/ s = Malformed
  \/ s.name = Malformed
  \/ s.confidence \notin ValidConfidence

ServiceKept(s) ==
  /\ s.type \in ValidServiceTypes \cup {Absent}
  /\ s.root_path \notin {Malformed, Absent, ""}
  /\ s.language \notin {Malformed, Absent, ""}
  /\ s.base_path # Malformed

(***************************************************************************)
(* Connections: none is ever dropped, so that positions stay.              *)
(***************************************************************************)

(* The symbol after the last colon of a file is split off. *)
FileOf(f) == IF f \in {Null, Absent} THEN f ELSE [f EXCEPT !.symbol = Null]

SymbolOf(f, given) ==
  IF f \in {Null, Absent} \/ f.symbol = Null THEN given ELSE f.symbol

(* An absolute source file is dropped, its symbol kept. *)
Relative(f) == IF f # Null /\ f.absolute THEN Null ELSE f

ConnectionRefused(c) ==
  \/ c = Malformed
  \/ Malformed \in {c.source, c.target, c.protocol, c.method, c.path,
                    c.evidence}
  \/ c.source_file \in {Malformed, Absent} \/ c.target_file = Malformed
  \/ SymbolOf(c.source_file, c.source_symbol) = Malformed
  \/ SymbolOf(c.target_file, c.target_symbol) = Malformed
  \/ c.confidence \notin ValidConfidence
  \/ c.crossing \notin ValidCrossings \cup {Absent, Null}

Normalized(c) ==
  [c EXCEPT !.source_file   = Relative(FileOf(@)),
            !.source_symbol = SymbolOf(c.source_file, @),
            !.target_file   = FileOf(@),
            !.target_symbol = SymbolOf(c.target_file, @)]

(***************************************************************************)
(* Schemas: one whose connection_index is no position is dropped.          *)
(***************************************************************************)

FieldRefused(f) ==
  \/ f = Malformed
  \/ Malformed \in {f.name, f.type}
  \/ f.required \notin BOOLEAN

SchemaRefused(s) ==
  \/ s = Malformed
  \/ Malformed \in {s.name, s.file, s.fields}
  \/ s.role \notin ValidRoles
  \/ \E f \in ToSet(s.fields) : FieldRefused(f)

(* Positions count from 0. *)
SchemaKept(s, connections) ==
  s.connection_index \in 0 .. Len(connections) - 1

(***************************************************************************)
(* validateFindings and parseAgentOutput.                                  *)
(***************************************************************************)

Refused(obj) ==
  \/ obj = Malformed
  \/ Malformed \in {obj.connections, obj.services, obj.schemas}
  \/ obj.service_name \in {Malformed, ""}
  \/ obj.confidence \notin ValidConfidence
  \/ \E s \in ToSet(obj.services) : ServiceRefused(s)
  \/ \E c \in ToSet(obj.connections) : ConnectionRefused(c)
  \/ \E s \in ToSet(obj.schemas) : SchemaRefused(s)

ValidateFindings(obj) ==
  IF Refused(obj) THEN Invalid
  ELSE [valid |-> TRUE,
        findings |->
          [services |-> SelectSeq(obj.services, ServiceKept),
           connections |-> [i \in DOMAIN obj.connections |->
                              Normalized(obj.connections[i])],
           schemas |-> SelectSeq(obj.schemas, LAMBDA s :
                                   SchemaKept(s, obj.connections))]]

(* A text: the JSON of its first fenced block, Absent without one; that of *)
(* all of it; and that between its first { and its last }. A fenced block  *)
(* that does not parse is not tried another way.                           *)
ParseAgentOutput(text) ==
  LET Json(j) == IF j \in {Absent, Unparseable} THEN Invalid
                 ELSE ValidateFindings(j)
  IN  IF text = Malformed THEN Invalid
      ELSE IF text.fenced # Absent THEN Json(text.fenced)
      ELSE IF text.whole # Unparseable THEN Json(text.whole)
      ELSE Json(text.braces)

(***************************************************************************)
(* What persistFindings reads of valid findings: a schema belongs to the   *)
(* connection at its position, and a call without method or path has none  *)
(* of the routes that the dedup index tells apart.                         *)
(***************************************************************************)

RouteOf(c, route, none) ==
  IF {"", Null, Absent} \cap {c.method, c.path} = {} THEN route ELSE none

Reported(findings, route, none) ==
  [services |-> {[name |-> s.name, file |-> s.source_file] :
                   s \in ToSet(findings.services)},
   connections |->
     {LET c == findings.connections[i]
      IN  [source |-> c.source, target |-> c.target,
           route |-> RouteOf(c, route, none),
           schema |-> \E s \in ToSet(findings.schemas) :
                        s.connection_index = i - 1] :
        i \in DOMAIN findings.connections}]
=============================================================================
