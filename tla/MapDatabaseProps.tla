-------------------------- MODULE MapDatabaseProps --------------------------
(***************************************************************************)
(* What an upgrade must do to the map a project already has.               *)
(***************************************************************************)
EXTENDS MapDatabase

(* The variables have their types.                                         *)
TypeOK ==
  /\ db.versions \subseteq Versions
  /\ db.names \subseteq UNION {NamesOf(v) : v \in Versions}
  /\ pc \in [Openers -> {"closed", "migrating", "open"}]
  /\ loaded \in [Openers -> SUBSET Versions]
  /\ seen \in [Openers -> Versions \cup {0}]
  /\ crashes \in 0 .. MaxCrashes

(* A process that has loaded all migrations and got its handle finds every *)
(* table, column and index the queries name, also when other processes     *)
(* migrated beside it or died between two migrations.                      *)
OpenIsComplete ==
  \A p \in Openers :
    pc[p] = "open" => UNION {NamesOf(v) : v \in loaded[p]} \subseteq db.names

(* What a database looks like while it is migrated and used.               *)
SchemaOK == TypeOK /\ OpenIsComplete

(* What a map says, by names instead of ids.                               *)
PathOf(d, id) == (CHOOSE r \in d.repos : r.id = id).path
NameOf(d, id) ==
  LET s == CHOOSE s \in d.services : s.id = id
  IN  <<PathOf(d, s.repo), s.name>>
SaidBy(d, c) == <<NameOf(d, c.source), NameOf(d, c.target), c.route>>

Said(d) ==
  [repos     |-> {r.path : r \in d.repos},
   services  |-> {NameOf(d, s.id) : s \in d.services},
   calls     |-> {SaidBy(d, c) : c \in d.connections},
   schemas   |-> {<<s.name, SaidBy(d, CHOOSE c \in d.connections :
                                       c.id = s.connection)>> : s \in d.schemas},
   endpoints |-> {<<NameOf(d, e.service), e.method, e.path>> :
                    e \in {x \in d.endpoints : x.method # NullMethod \/ x.slash}}]

(* No migration loses a repository, service, connection, schema or well    *)
(* formed endpoint, or moves one to another owner: of duplicates one is    *)
(* left, and it has what all of them had.                                  *)
NothingLost == [][db' # db => Said(db') = Said(db)]_vars

(* Duplicate rows that would stop the migrations: an endpoint in two rows  *)
(* of what will be one service, a scan of a repository row that goes.      *)
Clean(d) ==
  /\ \A e, f \in d.endpoints :
       NameOf(d, e.service) = NameOf(d, f.service)
         /\ e.method = f.method /\ e.path = f.path => e = f
  /\ \A s \in d.scans : s.repo = Survivor(d.repos, PathKey, s.repo)

(* A database without such duplicates is opened again and again by the     *)
(* processes that keep trying, however they collide.                       *)
CleanOpens == Clean(db) => []<>(\E p \in Openers : pc[p] = "open")

(* Nothing but another process that writes stops an upgrade.  It does not  *)
(* hold: the unique keys of 003 and the foreign key of scan_versions are   *)
(* not considered when duplicates are merged.                              *)
OnlyContentionStops ==
  [][\A p \in Openers :
       pc[p] = "migrating" /\ pc'[p] = "closed" /\ crashes' = crashes
         => Contended(p)]_vars

=============================================================================
