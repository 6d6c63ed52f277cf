------------------------- MODULE ServiceGraphProofs --------------------------
(***************************************************************************)
(* What is proved of the answers about one impact map, for any services,   *)
(* calls, endpoints and caps, and any number of rows.                      *)
(***************************************************************************)
EXTENDS ServiceGraphProps, FiniteSetTheorems, SequenceTheorems,
        WellFoundedInduction, TLAPS

-----------------------------------------------------------------------------
(* The invariant: rows are stored in their canonical form, and the full    *)
(* text index has the words of each under its id, which no other row had.  *)

Canonical(c) ==
  /\ CanonicalProtocol(c.protocol) = c.protocol
  /\ CanonicalizePath(c.path) = c.path

RowsCanonical ==
  /\ connections \subseteq ConnectionRow /\ exposed \subseteq Endpoints
  /\ IsFiniteSet(connections)
  /\ \A c \in connections : Canonical(c)

IndexCurrent ==
  \A c \in connections :
    /\ Entry(c) \in index
    /\ \A e \in index : e.row = RowId(c) => e.words = Words(c)

IndexBounded ==
  /\ \A e \in index : e.row[2] \in Nat
  /\ \E m \in Nat : \A e \in index : e.row[2] <= m

IInv == RowsCanonical /\ IndexCurrent /\ IndexBounded

-----------------------------------------------------------------------------
(* Natural numbers.  The library's induction theorems have an operator as  *)
(* a parameter; that each set of numbers has a least one serves as well.   *)

Less == {p \in Nat \X Nat : p[1] < p[2]}

LEMMA LessWellFounded == IsWellFoundedOn(Less, Nat)
<1>1. OpToRel(<, Nat) = Less
  BY Zenon DEF OpToRel, Less
<1> QED
  BY <1>1, NatLessThanWellFounded, Zenon

LEMMA InLess ==
  ASSUME NEW m \in Nat, NEW n \in Nat, n < m
  PROVE  <<n, m>> \in Less
<1> DEFINE p == <<n, m>>
<1>1. p \in Nat \X Nat /\ p[1] = n /\ p[2] = m
  OBVIOUS
<1> HIDE DEF p
<1>2. p \in Less
  BY <1>1, SMT DEF Less
<1> QED
  BY <1>2 DEF p

LEMMA Least ==
  ASSUME NEW S \in SUBSET Nat, S # {}
  PROVE  \E m \in S : \A n \in S : m <= n
<1>1. PICK m \in S : \A n \in S : ~(<<n, m>> \in Less)
  BY LessWellFounded, WFMin, Zenon
<1>2. \A n \in S : n \in Nat /\ m \in Nat /\ ~(n < m)
  BY <1>1, InLess
<1> QED
  BY <1>2

(* Induction on the members of an interval. *)
LEMMA Induct ==
  ASSUME NEW lo \in Nat, NEW hi \in Nat, NEW S, lo \in S,
         \A k \in lo + 1 .. hi : k - 1 \in S => k \in S
  PROVE  lo .. hi \subseteq S
<1> DEFINE Bad == {k \in Nat : k \in lo .. hi /\ k \notin S}
<1>1. ASSUME Bad # {}
      PROVE  FALSE
  <2>1. PICK m \in Bad : \A k \in Bad : m <= k
    <3>1. Bad \in SUBSET Nat
      OBVIOUS
    <3> HIDE DEF Bad
    <3> QED
      BY <1>1, <3>1, Least
  <2>2. m \in lo .. hi /\ m \notin S /\ m # lo
    BY <2>1
  <2>3. m \in lo + 1 .. hi /\ m - 1 \in lo .. hi /\ m - 1 \in Nat /\ ~(m <= m - 1)
    BY <2>2
  <2>4. m - 1 \notin Bad
    BY <2>1, <2>3, Zenon
  <2>5. m - 1 \in S
    BY <2>3, <2>4
  <2> QED
    BY <2>2, <2>3, <2>5
<1>2. \A k \in lo .. hi : k \in Nat
  OBVIOUS
<1> QED
  BY <1>1, <1>2

(* f begins with a, and G makes each of its values of the one before. *)
Follows(f, lo, hi, X, a, G) ==
  /\ f \in [lo .. hi -> X]
  /\ \A k \in lo .. hi : f[k] = IF k = lo THEN a ELSE G[f[k - 1]]

(* A function may be defined by its first value and what it makes of one   *)
(* value for the next.                                                     *)
LEMMA Recursion ==
  ASSUME NEW lo \in Nat, NEW hi \in Nat, NEW X, NEW a \in X, NEW G \in [X -> X]
  PROVE  \E f : Follows(f, lo, hi, X, a, G)
<1> DEFINE Upto(n, f) == /\ f \in [lo .. n -> X]
                         /\ f[lo] = a
                         /\ \A k \in lo + 1 .. n : f[k] = G[f[k - 1]]
           S == {n \in Nat : \E f : Upto(n, f)}
<1>1. CASE hi < lo
  <2> DEFINE f == [k \in lo .. hi |-> a]
  <2>1. f \in [lo .. hi -> X] /\ lo .. hi = {}
    BY <1>1
  <2> QED
    BY <2>1 DEF Follows
<1>2. CASE lo <= hi
  <2>1. lo \in S
    <3> DEFINE f == [k \in lo .. lo |-> a]
    <3>1. Upto(lo, f)
      OBVIOUS
    <3> QED
      BY <3>1
  <2>2. ASSUME NEW n \in lo + 1 .. hi, n - 1 \in S
        PROVE  n \in S
    <3>1. PICK f : Upto(n - 1, f)
      BY <2>2
    <3> DEFINE g == [k \in lo .. n |-> IF k = n THEN G[f[n - 1]] ELSE f[k]]
    <3>2. /\ n \in Nat /\ n - 1 \in lo .. n - 1 /\ lo \in lo .. n - 1 /\ n # lo
          /\ \A k \in lo .. n : k # n => k \in lo .. n - 1
          /\ \A k \in lo + 1 .. n : k - 1 \in lo .. n - 1 /\ k - 1 # n /\ k \in lo .. n
      BY <2>2
    <3>3. f[n - 1] \in X /\ \A k \in lo .. n - 1 : f[k] \in X
      BY <3>1, <3>2
    <3>4. g \in [lo .. n -> X]
      BY <3>2, <3>3
    <3>5. g[lo] = a
      BY <3>1, <3>2
    <3>6. \A k \in lo + 1 .. n : g[k] = G[g[k - 1]]
      <4> TAKE k \in lo + 1 .. n
      <4>1. g[k - 1] = f[k - 1]
        BY <3>2
      <4>2. CASE k = n
        BY <3>2, <4>1, <4>2
      <4>3. CASE k # n
        <5>1. k \in lo + 1 .. n - 1
          BY <3>2, <4>3
        <5> QED
          BY <3>1, <3>2, <4>1, <4>3, <5>1
      <4> QED
        BY <4>2, <4>3
    <3>7. Upto(n, g)
      BY <3>4, <3>5, <3>6
    <3> QED
      BY <3>2, <3>7
  <2>3. hi \in S
    <3> HIDE DEF S
    <3>1. lo .. hi \subseteq S
      BY <2>1, <2>2, Induct
    <3> QED
      BY <1>2, <3>1
  <2>4. PICK f : Upto(hi, f)
    BY <2>3
  <2>5. \A k \in lo .. hi : k # lo => k \in lo + 1 .. hi
    OBVIOUS
  <2> QED
    BY <2>4, <2>5 DEF Follows
<1> QED
  BY <1>1, <1>2

LEMMA MinOf ==
  ASSUME NEW S \in SUBSET Nat, S # {}
  PROVE  Min(S) \in S /\ \A n \in S : Min(S) <= n
BY Least DEF Min

LEMMA MaxOf ==
  ASSUME NEW S \in SUBSET Nat, S # {}, NEW m \in Nat, \A n \in S : n <= m
  PROVE  Max(S) \in S /\ \A n \in S : n <= Max(S)
<1> DEFINE U == {k \in Nat : \A n \in S : n <= k}
<1>1. PICK k \in U : \A j \in U : k <= j
  BY Least
<1>2. k \in S
  <2>1. CASE k = 0
    <3>1. PICK n \in S : TRUE
      OBVIOUS
    <3>2. n \in Nat /\ n <= 0
      BY <1>1, <2>1
    <3> QED
      BY <2>1, <3>1, <3>2
  <2>2. CASE k # 0
    <3>1. k - 1 \in Nat /\ k - 1 \notin U
      BY <1>1, <2>2
    <3> QED
      BY <1>1, <3>1
  <2> QED
    BY <2>1, <2>2
<1>3. \E x \in S : \A n \in S : x >= n
  BY <1>1, <1>2
<1> QED
  BY <1>3 DEF Max

-----------------------------------------------------------------------------
(* Normalisation.                                                          *)

LEMMA Constant ==
  /\ Buckets \cup {"other", "null", Blank} \subseteq Terms
  /\ Count \in Nat /\ MaxDepth \in Nat \ {0} /\ GraphDepth \in Nat \ {0}
  /\ Calls \subseteq ConnectionRow /\ Endpoints \subseteq EndpointRow
  /\ Variables \subseteq Terms \ {"null"}
  /\ NameOf \in [Services -> Terms] /\ ScanOf \in [Services -> Nat]
  /\ BaseOf \in [Services -> Seq(Terms)]
BY ConstantsAssumption, Zenon

LEMMA ProtocolNormal ==
  ASSUME NEW t \in Terms
  PROVE  /\ CanonicalProtocol(t) \in Terms
         /\ CanonicalProtocol(CanonicalProtocol(t)) = CanonicalProtocol(t)
<1>1. /\ DOMAIN Aliases = {"kafka", "nats", "sse", "postgres", "redis", "graphql", "http"}
      /\ \A a \in DOMAIN Aliases : Aliases[a] \in {"events", "db", "rest"}
  BY DEF Aliases
<1>2. CanonicalProtocol(t) \in Buckets \cup {"other"}
  BY <1>1 DEF CanonicalProtocol, Buckets
<1>3. CanonicalProtocol("other") = "other"
  BY <1>1 DEF CanonicalProtocol, Buckets
<1>4. \A b \in Buckets : CanonicalProtocol(b) = b
  BY DEF CanonicalProtocol
<1>5. \A b \in Buckets \cup {"other"} : CanonicalProtocol(b) = b
  BY <1>3, <1>4
<1> QED
  BY <1>2, <1>5, Constant

LEMMA FunctionIsSeq ==
  ASSUME NEW n \in Nat, NEW S, NEW f \in [1 .. n -> S]
  PROVE  f \in Seq(S) /\ Len(f) = n
<1>1. f \in Seq(S)
  BY SeqDef
<1> QED
  BY <1>1, LenProperties

LEMMA PathNormal ==
  ASSUME NEW p \in Seq(Terms)
  PROVE  /\ CanonicalizePath(p) \in Seq(Terms)
         /\ DOMAIN CanonicalizePath(p) = 1 .. Len(p)
         /\ Len(CanonicalizePath(p)) = Len(p)
         /\ \A i \in 1 .. Len(p) :
              CanonicalizePath(p)[i] = IF p[i] \in Variables THEN Blank ELSE p[i]
<1> DEFINE q == CanonicalizePath(p)
<1>1. q = [i \in 1 .. Len(p) |-> IF p[i] \in Variables THEN Blank ELSE p[i]]
  BY LenProperties DEF CanonicalizePath
<1>2. Blank \in Terms
  BY Constant
<1>3. Len(p) \in Nat /\ \A i \in 1 .. Len(p) : p[i] \in Terms
  BY ElementOfSeq, LenProperties
<1> HIDE DEF q
<1>4. q \in [1 .. Len(p) -> Terms]
  BY <1>1, <1>2, <1>3
<1>5. q \in Seq(Terms) /\ Len(q) = Len(p)
  BY <1>3, <1>4, FunctionIsSeq
<1> QED
  BY <1>1, <1>4, <1>5 DEF q

LEMMA PathTwice ==
  ASSUME NEW p \in Seq(Terms)
  PROVE  CanonicalizePath(CanonicalizePath(p)) = CanonicalizePath(p)
<1> DEFINE q == CanonicalizePath(p)
<1>1. /\ q \in Seq(Terms) /\ Len(q) = Len(p) /\ DOMAIN q = 1 .. Len(p)
      /\ \A i \in 1 .. Len(p) : q[i] = IF p[i] \in Variables THEN Blank ELSE p[i]
  BY PathNormal
<1> HIDE DEF q
<1>2. \A i \in 1 .. Len(p) : (IF q[i] \in Variables THEN Blank ELSE q[i]) = q[i]
  BY <1>1
<1>3. CanonicalizePath(q) = [i \in 1 .. Len(p) |-> IF q[i] \in Variables THEN Blank ELSE q[i]]
  BY <1>1 DEF CanonicalizePath
<1>4. CanonicalizePath(q) = q
  BY <1>1, <1>2, <1>3
<1> QED
  BY <1>4 DEF q

(* Two paths are one route if they are the same without their variables.   *)
LEMMA RouteIsCanonical ==
  ASSUME NEW p \in Seq(Terms), NEW q \in Seq(Terms)
  PROVE  SameRoute(p, q) <=> CanonicalizePath(p) = CanonicalizePath(q)
<1> DEFINE P == CanonicalizePath(p)
           Q == CanonicalizePath(q)
<1>1. /\ DOMAIN P = 1 .. Len(p) /\ DOMAIN Q = 1 .. Len(q)
      /\ P \in Seq(Terms) /\ Q \in Seq(Terms) /\ Len(P) = Len(p) /\ Len(Q) = Len(q)
      /\ \A i \in 1 .. Len(p) : P[i] = IF p[i] \in Variables THEN Blank ELSE p[i]
      /\ \A i \in 1 .. Len(q) : Q[i] = IF q[i] \in Variables THEN Blank ELSE q[i]
  BY PathNormal
<1> HIDE DEF P, Q
<1>2. P = Q <=> Len(p) = Len(q) /\ \A i \in 1 .. Len(p) : P[i] = Q[i]
  BY <1>1, SeqEqual
<1>3. Len(p) = Len(q) => \A i \in 1 .. Len(p) :
        P[i] = Q[i] <=> p[i] = q[i] \/ {p[i], q[i]} \subseteq Variables \cup {Blank}
  BY <1>1
<1>4. SameRoute(p, q) <=> P = Q
  BY <1>2, <1>3 DEF SameRoute
<1> QED
  BY <1>4 DEF P, Q

-----------------------------------------------------------------------------
(* The steps.                                                              *)

LEMMA StoredRow ==
  ASSUME NEW call \in Calls, NEW n \in Nat
  PROVE  LET row == [Stored(call) EXCEPT !.nth = n]
         IN  /\ row \in ConnectionRow /\ Canonical(row)
             /\ Key(row) = Key(Stored(call)) /\ row.nth = n
<1>1. call \in ConnectionRow
  BY Constant
<1>2. /\ CanonicalProtocol(call.protocol) \in Terms
      /\ CanonicalProtocol(CanonicalProtocol(call.protocol)) = CanonicalProtocol(call.protocol)
      /\ CanonicalizePath(call.path) \in Seq(Terms)
      /\ CanonicalizePath(CanonicalizePath(call.path)) = CanonicalizePath(call.path)
  BY <1>1, ProtocolNormal, PathNormal, PathTwice DEF ConnectionRow
<1> DEFINE row == [Stored(call) EXCEPT !.nth = n]
<1>3. /\ row = [call EXCEPT !.protocol = CanonicalProtocol(call.protocol),
                            !.path = CanonicalizePath(call.path), !.nth = n]
      /\ row \in ConnectionRow
      /\ row.protocol = CanonicalProtocol(call.protocol)
      /\ row.path = CanonicalizePath(call.path) /\ row.nth = n
  BY <1>1, <1>2 DEF Stored, ConnectionRow
<1>4. Key(row) = Key(Stored(call))
  BY <1>1 DEF Key, Stored, ConnectionRow
<1> HIDE DEF row
<1>5. Canonical(row)
  BY <1>2, <1>3 DEF Canonical
<1> QED
  BY <1>3, <1>4, <1>5 DEF row

LEMMA FreshRow ==
  ASSUME IndexBounded, NEW c
  PROVE  /\ NextRow(c) \in Nat
         /\ \A e \in index : e.row[1] = Key(c) => e.row[2] < NextRow(c)
<1> DEFINE S == {0} \cup {e.row[2] : e \in {k \in index : k.row[1] = Key(c)}}
<1>1. PICK m \in Nat : \A e \in index : e.row[2] <= m
  BY DEF IndexBounded
<1>2. S \in SUBSET Nat /\ S # {} /\ \A n \in S : n <= m
  BY <1>1 DEF IndexBounded
<1>3. Max(S) \in S /\ \A n \in S : n <= Max(S)
  BY <1>2, MaxOf
<1>4. \A e \in index : e.row[1] = Key(c) => e.row[2] \in S
  OBVIOUS
<1>5. NextRow(c) = 1 + Max(S)
  BY DEF NextRow
<1> HIDE DEF S
<1>6. Max(S) \in Nat /\ \A n \in S : n \in Nat
  BY <1>2, <1>3
<1> QED
  BY <1>3, <1>4, <1>5, <1>6

LEMMA Upserted ==
  ASSUME IInv, NEW call \in Calls, UpsertConnection(call)
  PROVE  IInv'
<1> DEFINE n == NextRow(Stored(call))
           row == [Stored(call) EXCEPT !.nth = n]
<1>1. n \in Nat /\ \A e \in index : e.row[1] = Key(Stored(call)) => e.row[2] < n
  BY FreshRow DEF IInv
<1>2. /\ row \in ConnectionRow /\ Canonical(row)
      /\ Key(row) = Key(Stored(call)) /\ row.nth = n
  BY <1>1, StoredRow
<1>3. /\ connections' = (connections \ Replaced(Stored(call))) \cup {row}
      /\ index' = index \cup {Entry(row)}
      /\ UNCHANGED exposed
  BY DEF UpsertConnection
<1> HIDE DEF n, row
<1>4. RowsCanonical'
  <2>1. IsFiniteSet(connections')
    BY <1>3, FS_Subset, FS_AddElement DEF IInv, RowsCanonical
  <2> QED
    BY <1>2, <1>3, <2>1 DEF IInv, RowsCanonical
<1>5. /\ Entry(row).row = <<Key(row), n>> /\ Entry(row).words = Words(row)
      /\ RowId(row) = <<Key(row), n>>
  BY <1>2 DEF Entry, RowId
<1>6. \A e \in index : e.row # <<Key(row), n>>
  BY <1>1, <1>2
<1>7. IndexCurrent'
  <2>1. ASSUME NEW c \in connections' PROVE Entry(c) \in index'
    BY <1>3, <2>1 DEF IInv, IndexCurrent
  <2>2. ASSUME NEW c \in connections, NEW e \in index', e.row = RowId(c)
        PROVE  e.words = Words(c)
    <3>1. Entry(c) \in index /\ Entry(c).row = RowId(c)
      BY DEF IInv, IndexCurrent, Entry
    <3>2. e \in index
      BY <1>3, <1>5, <1>6, <2>2, <3>1
    <3> QED
      BY <2>2, <3>2 DEF IInv, IndexCurrent
  <2>3. ASSUME NEW e \in index', e.row = RowId(row)
        PROVE  e.words = Words(row)
    BY <1>3, <1>5, <1>6, <2>3
  <2>4. connections' \subseteq connections \cup {row}
    BY <1>3
  <2> QED
    BY <2>1, <2>2, <2>3, <2>4 DEF IndexCurrent
<1>8. IndexBounded'
  <2>1. PICK m \in Nat : \A e \in index : e.row[2] <= m
    BY DEF IInv, IndexBounded
  <2> DEFINE k == IF m < n THEN n ELSE m
  <2>2. k \in Nat /\ m <= k /\ n <= k
    BY <1>1
  <2> HIDE DEF k
  <2>3. \A e \in index' : e.row[2] \in Nat /\ e.row[2] <= k
    BY <1>1, <1>3, <1>5, <2>1, <2>2 DEF IInv, IndexBounded
  <2> QED
    BY <2>2, <2>3 DEF IndexBounded
<1> QED
  BY <1>4, <1>7, <1>8 DEF IInv

LEMMA Invariant == Spec => []IInv
<1>1. Init => IInv
  BY FS_EmptySet DEF Init, IInv, RowsCanonical, IndexCurrent, IndexBounded
<1>2. ASSUME IInv, [Next]_vars
      PROVE  IInv'
  <2>1. ASSUME NEW e \in Endpoints, ExposeEndpoint(e)
        PROVE  IInv'
    BY <1>2, <2>1 DEF ExposeEndpoint, IInv, RowsCanonical, IndexCurrent, IndexBounded
  <2>2. CASE UNCHANGED vars
    BY <1>2, <2>2 DEF vars, IInv, RowsCanonical, IndexCurrent, IndexBounded
  <2> QED
    BY <1>2, <2>1, <2>2, Upserted DEF Next
<1> QED
  BY <1>1, <1>2, PTL DEF Spec

-----------------------------------------------------------------------------
(* Mismatches.                                                             *)

(* The base paths are literal text. *)
PlainBases == \A s \in Services : ToSet(BaseOf[s]) \cap Variables = {}

(* To strip the base path from a canonical path, and to compare the rest,  *)
(* is to compare the route below the base path.                            *)
LEMMA BelowBase ==
  ASSUME NEW b \in Seq(Terms), NEW e \in Seq(Terms), NEW p \in Seq(Terms),
         ToSet(b) \cap Variables = {}, CanonicalizePath(p) = p
  PROVE  /\ IsPrefix(b, p) => SubSeq(p, Len(b) + 1, Len(p)) \in Seq(Terms)
         /\ SameRoute(b \o e, p) <=>
              IsPrefix(b, p) /\ SameRoute(e, SubSeq(p, Len(b) + 1, Len(p)))
<1> DEFINE n == Len(b)
           rest == SubSeq(p, n + 1, Len(p))
           whole == b \o e
<1>1. /\ n \in Nat /\ Len(e) \in Nat /\ Len(p) \in Nat
      /\ DOMAIN b = 1 .. n /\ DOMAIN e = 1 .. Len(e) /\ DOMAIN p = 1 .. Len(p)
  BY LenProperties
<1>2. /\ \A i \in 1 .. n : b[i] \in Terms /\ b[i] \notin Variables
      /\ \A i \in 1 .. Len(p) : p[i] \in Terms /\ (p[i] \in Variables => p[i] = Blank)
  <2>1. \A i \in 1 .. n : b[i] \in Terms /\ b[i] \notin Variables
    BY <1>1, ElementOfSeq DEF ToSet
  <2>2. ASSUME NEW i \in 1 .. Len(p)
        PROVE  p[i] \in Terms /\ (p[i] \in Variables => p[i] = Blank)
    <3>1. p[i] = IF p[i] \in Variables THEN Blank ELSE p[i]
      BY PathNormal
    <3>2. p[i] \in Terms
      BY ElementOfSeq
    <3> QED
      BY <3>1, <3>2
  <2> QED
    BY <2>1, <2>2
<1>3. /\ whole \in Seq(Terms) /\ Len(whole) = n + Len(e) /\ DOMAIN whole = 1 .. Len(whole)
      /\ \A i \in 1 .. n + Len(e) : whole[i] = IF i <= n THEN b[i] ELSE e[i - n]
  BY ConcatProperties, LenProperties
<1>4. n <= Len(p) => /\ rest \in Seq(Terms) /\ Len(rest) = Len(p) - n
                     /\ \A i \in 1 .. Len(p) - n : rest[i] = p[n + i]
  <2> HAVE n <= Len(p)
  <2>1. \A i \in n + 1 .. Len(p) : p[i] \in Terms
    BY <1>1, <1>2
  <2>2. /\ rest \in Seq(Terms)
        /\ Len(rest) = IF n + 1 <= Len(p) THEN Len(p) - (n + 1) + 1 ELSE 0
        /\ \A i \in 1 .. Len(p) - (n + 1) + 1 : rest[i] = p[n + 1 + i - 1]
    BY <1>1, <2>1, SubSeqProperties
  <2> HIDE DEF rest
  <2>3. Len(rest) = Len(p) - n
    <3>1. CASE n + 1 <= Len(p)
      BY <1>1, <2>2, <3>1
    <3>2. CASE ~(n + 1 <= Len(p))
      <4>1. n \in Nat /\ Len(p) \in Nat /\ n <= Len(p)
        BY <1>1
      <4>2. Len(p) = n
        BY <3>2, <4>1
      <4>3. Len(rest) = 0
        BY <2>2, <3>2
      <4> QED
        BY <4>1, <4>2, <4>3
    <3> QED
      BY <3>1, <3>2
  <2>4. \A i \in 1 .. Len(p) - n :
          i \in 1 .. Len(p) - (n + 1) + 1 /\ n + 1 + i - 1 = n + i
    BY <1>1
  <2> QED
    BY <2>2, <2>3, <2>4
<1> HIDE DEF whole, rest
<1>5. IsPrefix(b, p) <=> n <= Len(p) /\ \A i \in 1 .. n : b[i] = p[i]
  <2>1. SubSeq(b, 1, n) = b
    BY SubSeqFull
  <2>2. n <= Len(p) => /\ SubSeq(p, 1, n) \in Seq(Terms) /\ Len(SubSeq(p, 1, n)) = n
                       /\ \A i \in 1 .. n : SubSeq(p, 1, n)[i] = p[i]
    <3> HAVE n <= Len(p)
    <3>1. \A i \in 1 .. n : p[i] \in Terms
      BY <1>1, <1>2
    <3>2. /\ SubSeq(p, 1, n) \in Seq(Terms)
          /\ Len(SubSeq(p, 1, n)) = IF 1 <= n THEN n - 1 + 1 ELSE 0
          /\ \A i \in 1 .. n - 1 + 1 : SubSeq(p, 1, n)[i] = p[1 + i - 1]
      BY <1>1, <3>1, SubSeqProperties
    <3> QED
      BY <1>1, <3>2
  <2>3. n <= Len(p) => (b = SubSeq(p, 1, n) <=> \A i \in 1 .. n : b[i] = p[i])
    BY <2>2, SeqEqual
  <2> QED
    BY <2>1, <2>3 DEF IsPrefix
<1>6. ASSUME SameRoute(whole, p)
      PROVE  IsPrefix(b, p) /\ SameRoute(e, rest)
  <2>1. n + Len(e) = Len(p) /\ n <= Len(p)
    <3>1. Len(whole) = Len(p)
      BY <1>6 DEF SameRoute
    <3>2. n \in Nat /\ Len(e) \in Nat /\ Len(whole) = n + Len(e)
      BY <1>1, <1>3
    <3> QED
      BY <3>1, <3>2
  <2>2. \A i \in 1 .. Len(p) :
          whole[i] = p[i] \/ {whole[i], p[i]} \subseteq Variables \cup {Blank}
    BY <1>1, <1>3, <1>6, <2>1 DEF SameRoute
  <2>3. \A i \in 1 .. n : b[i] = p[i]
    <3> TAKE i \in 1 .. n
    <3>1. i \in 1 .. Len(p) /\ i \in 1 .. n + Len(e) /\ i <= n
      BY <1>1, <2>1
    <3>2. whole[i] = b[i]
      BY <1>3, <3>1
    <3>3. b[i] \notin Variables /\ (p[i] \in Variables => p[i] = Blank)
      BY <1>2, <3>1
    <3> QED
      BY <2>2, <3>1, <3>2, <3>3
  <2>4. \A i \in 1 .. Len(e) :
          e[i] = rest[i] \/ {e[i], rest[i]} \subseteq Variables \cup {Blank}
    <3> TAKE i \in 1 .. Len(e)
    <3>1. n + i \in 1 .. Len(p) /\ n + i \in 1 .. n + Len(e) /\ ~(n + i <= n)
          /\ n + i - n = i /\ i \in 1 .. Len(p) - n
      BY <1>1, <2>1
    <3>2. whole[n + i] = e[i] /\ rest[i] = p[n + i]
      BY <1>3, <1>4, <2>1, <3>1
    <3> QED
      BY <2>2, <3>1, <3>2
  <2> QED
    BY <1>1, <1>4, <1>5, <2>1, <2>3, <2>4 DEF SameRoute
<1>7. ASSUME IsPrefix(b, p), SameRoute(e, rest)
      PROVE  SameRoute(whole, p)
  <2>1. n <= Len(p) /\ Len(e) = Len(p) - n /\ \A i \in 1 .. n : b[i] = p[i]
    BY <1>4, <1>5, <1>7 DEF SameRoute
  <2>2. \A i \in 1 .. Len(e) :
          e[i] = rest[i] \/ {e[i], rest[i]} \subseteq Variables \cup {Blank}
    BY <1>1, <1>7 DEF SameRoute
  <2>3. \A i \in 1 .. n + Len(e) :
          whole[i] = p[i] \/ {whole[i], p[i]} \subseteq Variables \cup {Blank}
    <3> TAKE i \in 1 .. n + Len(e)
    <3>1. CASE i <= n
      BY <1>1, <1>3, <2>1, <3>1
    <3>2. CASE ~(i <= n)
      <4>1. i - n \in 1 .. Len(e) /\ i - n \in 1 .. Len(p) - n /\ n + (i - n) = i
        BY <1>1, <2>1, <3>2
      <4>2. whole[i] = e[i - n] /\ rest[i - n] = p[i]
        BY <1>3, <1>4, <2>1, <3>2, <4>1
      <4> QED
        BY <2>2, <4>1, <4>2
    <3> QED
      BY <3>1, <3>2
  <2> QED
    BY <1>1, <1>3, <2>1, <2>3 DEF SameRoute
<1> QED
  BY <1>4, <1>5, <1>6, <1>7 DEF whole, rest

LEMMA ServedIsExposed ==
  ASSUME IInv, PlainBases, NEW c \in connections
  PROVE  (\E e \in exposed : Serves(e, c)) <=>
           \/ IsExposed(c, c.path)
           \/ \E p \in StripBasePath(c.path, BaseOf[c.target]) : IsExposed(c, p)
<1> DEFINE b == BaseOf[c.target]
           rest == SubSeq(c.path, Len(b) + 1, Len(c.path))
<1>1. /\ c.target \in Services /\ c.path \in Seq(Terms)
      /\ CanonicalizePath(c.path) = c.path /\ b \in Seq(Terms)
      /\ ToSet(b) \cap Variables = {}
      /\ \A e \in exposed : e.path \in Seq(Terms)
  BY Constant DEF IInv, RowsCanonical, Canonical, ConnectionRow, EndpointRow, PlainBases
<1>2. \A e \in exposed :
        /\ IsPrefix(b, c.path) => rest \in Seq(Terms)
        /\ SameRoute(e.path, c.path) <=>
             CanonicalizePath(e.path) = CanonicalizePath(c.path)
        /\ SameRoute(b \o e.path, c.path) <=>
             IsPrefix(b, c.path) /\ SameRoute(e.path, rest)
  BY <1>1, RouteIsCanonical, BelowBase
<1>3. \A e \in exposed : IsPrefix(b, c.path) =>
        (SameRoute(e.path, rest) <=> CanonicalizePath(e.path) = CanonicalizePath(rest))
  BY <1>1, <1>2, RouteIsCanonical, ZenonT(30)
<1>4. StripBasePath(c.path, b) = IF b # <<>> /\ IsPrefix(b, c.path) THEN {rest} ELSE {}
  BY DEF StripBasePath
<1> HIDE DEF b, rest
<1>5. \A e \in exposed : Serves(e, c) <=>
        /\ e \in EndpointsOf(c.target)
        /\ c.method = NullMethod \/ e.method \in {c.method, NullMethod}
        /\ \/ CanonicalizePath(e.path) = CanonicalizePath(c.path)
           \/ b # <<>> /\ IsPrefix(b, c.path)
                /\ CanonicalizePath(e.path) = CanonicalizePath(rest)
  BY <1>2, <1>3 DEF Serves, EndpointsOf, b
<1>6. \A e \in EndpointsOf(c.target) : e \in exposed
  BY DEF EndpointsOf
<1> QED
  BY <1>4, <1>5, <1>6 DEF IsExposed, b

(* A call is reported as a mismatch exactly if its service has endpoints   *)
(* and none of them serves it, when no base path has a template variable.  *)
THEOREM MismatchesAreExact == PlainBases => (Spec => []MismatchesExact)
<1> SUFFICES ASSUME PlainBases PROVE Spec => []MismatchesExact
  OBVIOUS
<1>1. ASSUME IInv PROVE MismatchesExact
  <2>1. \A c \in connections :
          CanonicalProtocol(c.protocol) = c.protocol
    BY <1>1 DEF IInv, RowsCanonical, Canonical
  <2>2. \A c \in connections :
          EndpointsOf(c.target) # {} <=> \E e \in exposed : e.service = c.target
    BY DEF EndpointsOf
  <2>3. \A c \in connections : c \in DetectMismatches <=>
          /\ CanonicalProtocol(c.protocol) \in {"rest", "grpc"}
          /\ c.path # NullPath
          /\ \E e \in exposed : e.service = c.target
          /\ ~\E e \in exposed : Serves(e, c)
    BY <1>1, <2>1, <2>2, ServedIsExposed DEF DetectMismatches, Candidates
  <2>4. DetectMismatches \subseteq connections
    BY DEF DetectMismatches, Candidates
  <2> QED
    BY <2>3, <2>4 DEF MismatchesExact
<1> QED
  BY <1>1, Invariant, PTL

-----------------------------------------------------------------------------
(* Answers about files, words and names.                                   *)

LEMMA Asked ==
  Changes \subseteq Seq(Seq(Terms)) /\ Queries \subseteq Seq(Terms)
BY QuestionsAssumption

(* LIKE finds a word of a text in it. *)
LEMMA HoldsWord ==
  ASSUME NEW text \in Seq(Terms), NEW q \in Seq(Terms), Len(q) = 1,
         q[1] \in ToSet(text)
  PROVE  Holds(text, q)
<1>1. Len(text) \in Nat /\ DOMAIN text = 1 .. Len(text) /\ DOMAIN q = 1 .. 1
  BY LenProperties
<1>2. PICK j \in 1 .. Len(text) : q[1] = text[j]
  BY <1>1 DEF ToSet
<1>3. j - 1 \in 0 .. Len(text) - Len(q) /\ (j - 1) + 1 = j
  BY <1>1
<1>4. \A k \in DOMAIN q : q[k] = text[(j - 1) + k]
  BY <1>1, <1>2, <1>3
<1> QED
  BY <1>3, <1>4 DEF Holds

LEMMA Searched ==
  ASSUME IInv
  PROVE  SearchExact
<1> SUFFICES ASSUME NEW q \in Queries
             PROVE  LET byWords == QuerySearch(q, TRUE).results
                        byPath  == QuerySearch(q, FALSE).results
                    IN  /\ byWords = {c \in connections : ToSet(q) \subseteq Words(c)}
                        /\ Len(q) = 1 =>
                             {c \in byWords :
                                \/ c.path # NullPath /\ q[1] \in ToSet(c.path)
                                \/ q[1] \in ToSet(c.file)} \subseteq byPath
  BY DEF SearchExact
<1>1. /\ QuerySearch(q, TRUE).results = FtsHits(q)
      /\ QuerySearch(q, FALSE).results = LikeHits(q)
  BY DEF QuerySearch
<1>2. FtsHits(q) = {c \in connections : ToSet(q) \subseteq Words(c)}
  <2>1. ASSUME NEW c \in connections, ToSet(q) \subseteq Words(c)
        PROVE  c \in FtsHits(q)
    <3>1. Entry(c) \in index /\ Entry(c).row = RowId(c) /\ Entry(c).words = Words(c)
      BY DEF IInv, IndexCurrent, Entry
    <3> QED
      BY <2>1, <3>1 DEF FtsHits
  <2>2. ASSUME NEW c \in connections, NEW e \in index,
               e.row = RowId(c), ToSet(q) \subseteq e.words
        PROVE  ToSet(q) \subseteq Words(c)
    BY <2>2 DEF IInv, IndexCurrent
  <2> QED
    BY <2>1, <2>2 DEF FtsHits
<1>3. ASSUME Len(q) = 1, NEW c \in connections,
             \/ c.path # NullPath /\ q[1] \in ToSet(c.path)
             \/ q[1] \in ToSet(c.file)
      PROVE  c \in LikeHits(q)
  <2>1. q \in Seq(Terms)
    BY Asked
  <2>2. c.path \in Seq(Terms) /\ c.file \in Seq(Terms)
    BY DEF IInv, RowsCanonical, ConnectionRow
  <2> QED
    BY <1>3, <2>1, <2>2, HoldsWord DEF LikeHits, PathHolds
<1> QED
  BY <1>1, <1>2, <1>3

-----------------------------------------------------------------------------

Touched(files) == {c \in connections : \E f \in ToSet(files) : InFile(c, f)}

UsesIn(S, n) == {u \in Services \X S : IsUse(u, n)}

HitsOf(files, n) == {i \in DOMAIN files : CountIn(files[i], n) > 0}

LEMMA UsesFinite ==
  ASSUME IInv, NEW S \in SUBSET connections, NEW n
  PROVE  IsFiniteSet(UsesIn(S, n)) /\ Cardinality(UsesIn(S, n)) \in Nat
<1>1. IsFiniteSet(Services) /\ IsFiniteSet(S)
  BY Constant, FS_Interval, FS_Subset DEF Services, IInv, RowsCanonical
<1>2. UsesIn(S, n) \in SUBSET (Services \X S)
  BY DEF UsesIn
<1>3. IsFiniteSet(UsesIn(S, n))
  BY <1>1, <1>2, FS_Product, FS_Subset
<1> QED
  BY <1>3, FS_CardinalityType

LEMMA Counted ==
  ASSUME IInv, NEW f, NEW n
  PROVE  /\ CountIn(f, n) = Cardinality(UsesIn({c \in connections : InFile(c, f)}, n))
         /\ CountIn(f, n) \in Nat
         /\ CountIn(f, n) > 0 <=>
              \E s \in Services, c \in connections :
                NameOf[s] = n /\ s \in {c.source, c.target} /\ InFile(c, f)
<1> DEFINE S == {c \in connections : InFile(c, f)}
           U == UsesIn(S, n)
<1>1. U = {u \in Services \X connections : IsUse(u, n) /\ InFile(u[2], f)}
  BY DEF UsesIn
<1>2. CountIn(f, n) = Cardinality(U)
  BY <1>1 DEF CountIn
<1>3. S \in SUBSET connections
  OBVIOUS
<1>4. IsFiniteSet(U) /\ Cardinality(U) \in Nat
  BY <1>3, UsesFinite
<1>5. Cardinality(U) > 0 <=> U # {}
  BY <1>4, FS_EmptySet, SMTT(30)
<1>6. U # {} <=> \E s \in Services, c \in connections :
                   NameOf[s] = n /\ s \in {c.source, c.target} /\ InFile(c, f)
  <2>1. \A u \in U : u[1] \in Services /\ u[2] \in connections /\ NameOf[u[1]] = n
                       /\ u[1] \in {u[2].source, u[2].target} /\ InFile(u[2], f)
    BY <1>1 DEF IsUse
  <2>2. ASSUME NEW s \in Services, NEW c \in connections,
               NameOf[s] = n, s \in {c.source, c.target}, InFile(c, f)
        PROVE  <<s, c>> \in U
    BY <1>1, <2>2 DEF IsUse
  <2> QED
    BY <2>1, <2>2
<1> QED
  BY <1>2, <1>4, <1>5, <1>6

(* The services that a list of files affects, in whatever order. *)
LEMMA AffectedAre ==
  ASSUME IInv, NEW files \in Seq(Seq(Terms))
  PROVE  /\ {a.service : a \in QueryChanged(files)}
              = {NameOf[s] : s \in UNION {{c.source, c.target} : c \in Touched(files)}}
         /\ \A n : HitsOf(files, n) # {} =>
              /\ Min(HitsOf(files, n)) \in HitsOf(files, n)
              /\ HitsOf(files, n) \subseteq 1 .. Len(files)
         /\ QueryChanged(files) =
              {[service |-> n, count |-> CountIn(files[Min(HitsOf(files, n))], n)] :
                 n \in {m \in ToSet(NameOf) : HitsOf(files, m) # {}}}
<1>1. QueryChanged(files) =
        {[service |-> n, count |-> CountIn(files[Min(HitsOf(files, n))], n)] :
           n \in {m \in ToSet(NameOf) : HitsOf(files, m) # {}}}
  BY DEF QueryChanged, HitsOf
<1>2. {a.service : a \in QueryChanged(files)} = {m \in ToSet(NameOf) : HitsOf(files, m) # {}}
  <2> DEFINE T == {m \in ToSet(NameOf) : HitsOf(files, m) # {}}
             Row(n) == [service |-> n, count |-> CountIn(files[Min(HitsOf(files, n))], n)]
  <2>1. QueryChanged(files) = {Row(n) : n \in T} /\ \A n : Row(n).service = n
    BY <1>1
  <2> HIDE DEF T, Row
  <2>2. \A n : n \in T <=> \E a \in QueryChanged(files) : a.service = n
    BY <2>1
  <2> QED
    BY <2>2 DEF T
<1>3. ASSUME NEW n
      PROVE  HitsOf(files, n) # {} <=>
               \E s \in Services, c \in Touched(files) :
                 NameOf[s] = n /\ s \in {c.source, c.target}
  <2>1. HitsOf(files, n) # {} <=> \E f \in ToSet(files) : CountIn(f, n) > 0
    BY DEF HitsOf, ToSet
  <2>2. \A f \in ToSet(files) : CountIn(f, n) > 0 <=>
          \E s \in Services, c \in connections :
            NameOf[s] = n /\ s \in {c.source, c.target} /\ InFile(c, f)
    BY Counted
  <2> QED
    BY <2>1, <2>2 DEF Touched
<1>4. \A c \in Touched(files) : {c.source, c.target} \subseteq Services
  BY DEF Touched, IInv, RowsCanonical, ConnectionRow
<1>5. DOMAIN NameOf = Services
  BY Constant
<1>6. \A n : n \in {m \in ToSet(NameOf) : HitsOf(files, m) # {}} <=>
               n \in {NameOf[s] : s \in UNION {{c.source, c.target} : c \in Touched(files)}}
  BY <1>3, <1>4, <1>5 DEF ToSet
<1>7. ASSUME NEW n, HitsOf(files, n) # {}
      PROVE  Min(HitsOf(files, n)) \in HitsOf(files, n)
             /\ HitsOf(files, n) \subseteq 1 .. Len(files)
  <2>1. HitsOf(files, n) \subseteq 1 .. Len(files) /\ Len(files) \in Nat
    BY LenProperties DEF HitsOf
  <2>2. HitsOf(files, n) \in SUBSET Nat
    BY <2>1
  <2> QED
    BY <1>7, <2>1, <2>2, MinOf
<1> QED
  BY <1>1, <1>2, <1>6, <1>7

LEMMA ReversedFiles ==
  ASSUME NEW files \in Seq(Seq(Terms))
  PROVE  Reverse(files) \in Seq(Seq(Terms)) /\ ToSet(Reverse(files)) = ToSet(files)
<1> DEFINE n == Len(files)
           back == Reverse(files)
<1>1. n \in Nat /\ DOMAIN files = 1 .. n /\ \A i \in 1 .. n : files[i] \in Seq(Terms)
  BY LenProperties, ElementOfSeq
<1>2. \A i \in 1 .. n : (n - i) + 1 \in 1 .. n /\ (n - ((n - i) + 1)) + 1 = i
  BY <1>1
<1>3. back = [i \in 1 .. n |-> files[(n - i) + 1]]
  BY DEF Reverse
<1> HIDE DEF back, n
<1>4. /\ back \in [1 .. n -> Seq(Terms)] /\ DOMAIN back = 1 .. n
      /\ \A i \in 1 .. n : back[i] = files[(n - i) + 1]
  BY <1>1, <1>2, <1>3
<1>5. back \in Seq(Seq(Terms))
  BY <1>1, <1>4, FunctionIsSeq
<1>6. \A i \in 1 .. n : files[i] = back[(n - i) + 1]
  BY <1>2, <1>4
<1>7. ToSet(back) = ToSet(files)
  <2>1. /\ ToSet(back) = {back[i] : i \in 1 .. n}
        /\ ToSet(files) = {files[i] : i \in 1 .. n}
    BY <1>1, <1>4 DEF ToSet
  <2>2. \A i \in 1 .. n : \E j \in 1 .. n : back[i] = files[j]
    BY <1>2, <1>4
  <2>3. \A i \in 1 .. n : \E j \in 1 .. n : files[i] = back[j]
    BY <1>2, <1>6
  <2> QED
    BY <2>1, <2>2, <2>3
<1> QED
  BY <1>5, <1>7 DEF back

LEMMA Affecting ==
  ASSUME IInv
  PROVE  ChangedExact
<1> SUFFICES ASSUME NEW files \in Changes
             PROVE  LET reply == QueryChanged(files)
                        Affected(r) == {a.service : a \in r}
                    IN  /\ Affected(reply) = {NameOf[s] : s \in UNION {{c.source, c.target} :
                                                                c \in Touched(files)}}
                        /\ Affected(QueryChanged(Reverse(files))) = Affected(reply)
                        /\ \A a \in reply :
                             /\ a.count \in 1 .. Cardinality(UsesIn(Touched(files), a.service))
                             /\ Len(files) = 1 =>
                                  a.count = Cardinality(UsesIn(Touched(files), a.service))
  BY DEF ChangedExact, Touched, UsesIn
<1>1. files \in Seq(Seq(Terms))
  BY Asked
<1>2. Touched(Reverse(files)) = Touched(files) /\ Reverse(files) \in Seq(Seq(Terms))
  BY <1>1, ReversedFiles DEF Touched
<1>3. ASSUME NEW a \in QueryChanged(files)
      PROVE  /\ a.count \in 1 .. Cardinality(UsesIn(Touched(files), a.service))
             /\ Len(files) = 1 => a.count = Cardinality(UsesIn(Touched(files), a.service))
  <2>1. PICK n \in ToSet(NameOf) :
               /\ HitsOf(files, n) # {}
               /\ a = [service |-> n, count |-> CountIn(files[Min(HitsOf(files, n))], n)]
    BY <1>1, AffectedAre
  <2> DEFINE k == Min(HitsOf(files, n))
             S == {c \in connections : InFile(c, files[k])}
  <2>2. k \in HitsOf(files, n) /\ k \in 1 .. Len(files) /\ Len(files) \in Nat
        /\ DOMAIN files = 1 .. Len(files)
    BY <1>1, <2>1, AffectedAre, LenProperties
  <2>3. CountIn(files[k], n) = Cardinality(UsesIn(S, n)) /\ CountIn(files[k], n) \in Nat
    BY Counted
  <2>4. CountIn(files[k], n) > 0
    BY <2>2 DEF HitsOf
  <2>5. S \subseteq Touched(files) /\ (Len(files) = 1 => S = Touched(files))
    BY <2>2 DEF Touched, ToSet
  <2>6. /\ UsesIn(S, n) \in SUBSET UsesIn(Touched(files), n)
        /\ Touched(files) \in SUBSET connections
    BY <2>5 DEF UsesIn, Touched
  <2>7. /\ Cardinality(UsesIn(S, n)) <= Cardinality(UsesIn(Touched(files), n))
        /\ Cardinality(UsesIn(Touched(files), n)) \in Nat
    BY <2>6, UsesFinite, FS_Subset
  <2>8. a.service = n /\ a.count = CountIn(files[k], n)
    BY <2>1
  <2> HIDE DEF k, S
  <2> QED
    BY <2>3, <2>4, <2>5, <2>7, <2>8
<1> QED
  BY <1>1, <1>2, <1>3, AffectedAre

-----------------------------------------------------------------------------

LEMMA OwnersAgree ==
  ASSUME NEW n
  PROVE  LET Bearers == {s \in Services : NameOf[s] = n}
         IN  \/ /\ OwnersNamed(n) = {NoOwner}
                /\ \A s \in Bearers : GraphOwner(s) = NoOwner
             \/ OwnersNamed(n) \subseteq {GraphOwner(s) : s \in Bearers} \ {NoOwner}
BY DEF OwnersNamed, GraphOwner

LEMMA ActorsAgree ==
  ASSUME NEW n
  PROVE  {[actor |-> k.actor, protocol |-> CanonicalProtocol(k.protocol)] :
            k \in {[actor |-> a.actor, protocol |-> a.protocol] :
                     a \in {b \in ActorEdges : NameOf[b.service] = n}}}
           = {[actor |-> g.actor, protocol |-> g.protocol] :
                g \in UNION {GraphActors(s) : s \in {t \in Services : NameOf[t] = n}}}
<1> DEFINE A == {b \in ActorEdges : NameOf[b.service] = n}
           Told(a) == [actor |-> a.actor, protocol |-> a.protocol]
           Drawn(a) == [actor |-> a.actor, protocol |-> CanonicalProtocol(a.protocol),
                        raw |-> IF a.raw = "" THEN a.protocol ELSE a.raw]
           Canon(k) == [actor |-> k.actor, protocol |-> CanonicalProtocol(k.protocol)]
           Plain(g) == [actor |-> g.actor, protocol |-> g.protocol]
           G == UNION {GraphActors(s) : s \in {t \in Services : NameOf[t] = n}}
<1>1. G = {Drawn(a) : a \in A}
  <2>1. \A a \in ActorEdges : a.service \in Services
    BY AnswersAssumption, Zenon DEF AnswersAssumption
  <2>2. \A s : GraphActors(s) = {Drawn(a) : a \in {b \in ActorEdges : b.service = s}}
    BY DEF GraphActors
  <2> HIDE DEF Drawn
  <2> QED
    BY <2>1, <2>2
<1>2. \A a : Canon(Told(a)) = Plain(Drawn(a))
  OBVIOUS
<1> HIDE DEF Told, Drawn, Canon, Plain, A, G
<1>3. {Canon(k) : k \in {Told(a) : a \in A}} = {Plain(g) : g \in G}
  BY <1>1, <1>2
<1> QED
  BY <1>3 DEF Told, Canon, Plain, A, G

LEMMA Annotated == AnnotationsAgree
<1>1. ASSUME NEW results, NEW a \in EnrichImpactResult(results)
      PROVE  a.owners = OwnersNamed(NameOf[a.row.id])
  BY DEF EnrichImpactResult
<1>2. ASSUME NEW affected, NEW a \in EnrichAffectedResult(affected)
      PROVE  a.owners = OwnersNamed(a.row.service)
  BY DEF EnrichAffectedResult
<1>3. ASSUME NEW hits, NEW a \in EnrichSearchResult(hits)
      PROVE  a.actors = {[actor |-> k.actor, protocol |-> k.protocol] :
                           k \in {b \in ActorEdges : NameOf[b.service] = NameOf[a.row.source]}}
  BY DEF EnrichSearchResult
<1> QED
  BY <1>1, <1>2, <1>3, OwnersAgree, ActorsAgree DEF AnnotationsAgree

(* Words are found where a row has them and nowhere else, changed files    *)
(* affect whom they touch in whatever order they come, and what is said of *)
(* a name is what the graph shows of it.                                   *)
THEOREM AnswersAreExact == Spec => []AnswersExact
<1>1. IInv => AnswersExact
  BY Searched, Affecting, Annotated DEF AnswersExact
<1> QED
  BY <1>1, Invariant, PTL

-----------------------------------------------------------------------------
(* Pages.                                                                  *)

(* What a page is of, and which page is the last. *)
Slice(limit, offset) == {i \in Services : i > offset /\ i <= offset + limit}

LEMMA PageOf ==
  ASSUME NEW limit \in Nat \ {0}, NEW offset \in Nat
  PROVE  /\ GraphPage(limit, offset).services = Slice(limit, offset)
         /\ GraphPage(limit, offset).latest = LatestScan(Slice(limit, offset))
         /\ GraphPage(limit, offset).truncated <=> offset + limit < Count
         /\ GraphPage(limit, offset).connections \subseteq connections
         /\ \A c \in connections :
              {c.source, c.target} \cap Slice(limit, offset) # {} =>
                c \in GraphPage(limit, offset).connections
<1> DEFINE page == Slice(limit, offset)
<1>1. /\ GraphPage(limit, offset).services = page
      /\ GraphPage(limit, offset).latest = LatestScan(page)
      /\ GraphPage(limit, offset).truncated = (offset + Cardinality(page) < Count)
      /\ GraphPage(limit, offset).connections
           = {c \in connections : \/ page = {}
                                  \/ NameOf[c.source] \in {NameOf[i] : i \in page}
                                  \/ NameOf[c.target] \in {NameOf[i] : i \in page}}
  BY DEF GraphPage, Slice
<1>2. Count \in Nat
  BY Constant
<1>3. offset + Cardinality(page) < Count <=> offset + limit < Count
  <2>1. CASE offset + limit <= Count
    <3>1. page = offset + 1 .. offset + limit
      BY <1>2, <2>1 DEF Services, Slice
    <3>2. Cardinality(page) = limit
      BY <3>1, FS_Interval
    <3> QED
      BY <3>2
  <2>2. CASE ~(offset + limit <= Count)
    <3>1. page = offset + 1 .. Count
      BY <1>2, <2>2 DEF Services, Slice
    <3>2. Cardinality(page) = IF offset + 1 > Count THEN 0 ELSE Count - (offset + 1) + 1
      BY <1>2, <3>1, FS_Interval
    <3> QED
      BY <1>2, <2>2, <3>2
  <2> QED
    BY <2>1, <2>2
<1> HIDE DEF page
<1> QED
  BY <1>1, <1>3 DEF page

LEMMA Multiples ==
  ASSUME NEW limit \in Nat \ {0}, NEW j \in Nat, NEW k \in Nat
  PROVE  /\ k * limit \in Nat /\ k <= k * limit
         /\ j < k => j * limit + limit <= k * limit
<1>1. k * limit \in Nat
  OBVIOUS
<1>2. k <= k * limit
  <2>1. k * limit = k + k * (limit - 1) /\ k * (limit - 1) >= 0
    OBVIOUS
  <2> QED
    BY <1>1, <2>1
<1>3. ASSUME j < k
      PROVE  j * limit + limit <= k * limit
  <2>1. k - j - 1 \in Nat
    BY <1>3
  <2>2. (k - j - 1) * limit >= 0
    BY <2>1
  <2>3. (k - j - 1) * limit = k * limit - j * limit - limit
    OBVIOUS
  <2>4. k * limit \in Int /\ j * limit \in Int
    OBVIOUS
  <2> QED
    BY <2>2, <2>3, <2>4
<1> QED
  BY <1>1, <1>2, <1>3

(* The pages a reader comes to, by number. *)
Turned(limit) ==
  {j \in 0 .. Count :
     \A i \in 0 .. j - 1 : GraphPage(limit, i * limit).truncated}

LEMMA OnePage ==
  ASSUME NEW limit \in 1 .. Count, NEW i \in Services
  PROVE  \E k \in Turned(limit) :
           /\ i \in Slice(limit, k * limit)
           /\ \A j \in Nat : i \in Slice(limit, j * limit) => j = k
<1> DEFINE S == {k \in Nat : i <= k * limit + limit}
<1>1. Count \in Nat /\ limit \in Nat \ {0} /\ i \in Nat /\ 0 < i /\ i <= Count
  BY Constant DEF Services
<1>2. Count \in S
  BY <1>1, Multiples
<1>3. PICK k \in S : \A j \in S : k <= j
  BY <1>2, Least
<1>4. k \in Nat /\ k <= Count /\ i <= k * limit + limit
  BY <1>1, <1>2, <1>3
<1>5. \A j \in Nat : j < k => j * limit + limit < i
  BY <1>1, <1>3, <1>4, Multiples
<1>6. k * limit < i
  <2>1. CASE k = 0
    BY <1>1, <2>1
  <2>2. CASE k # 0
    <3>1. k - 1 \in Nat /\ k - 1 < k
      BY <1>4, <2>2
    <3>2. (k - 1) * limit + limit < i
      BY <1>5, <3>1
    <3>3. (k - 1) * limit + limit = k * limit
      BY <1>1, <1>4
    <3> QED
      BY <3>2, <3>3
  <2> QED
    BY <2>1, <2>2
<1>7. k \in Turned(limit)
  <2>1. ASSUME NEW j \in 0 .. k - 1
        PROVE  GraphPage(limit, j * limit).truncated
    <3>1. j \in Nat /\ j < k
      BY <1>4, <2>1
    <3>2. j * limit \in Nat /\ j * limit + limit < Count
      BY <1>1, <1>5, <3>1, Multiples
    <3> QED
      BY <1>1, <3>2, PageOf
  <2>2. k \in 0 .. Count
    BY <1>1, <1>4
  <2> QED
    BY <2>1, <2>2, Zenon DEF Turned
<1>8. i \in Slice(limit, k * limit)
  BY <1>4, <1>6 DEF Slice
<1>9. ASSUME NEW j \in Nat, i \in Slice(limit, j * limit)
      PROVE  j = k
  <2>1. j * limit < i /\ i <= j * limit + limit
    BY <1>9 DEF Slice
  <2>2. j * limit \in Nat /\ k * limit \in Nat
    BY <1>1, <1>4, Multiples
  <2>3. ~(j < k)
    BY <1>1, <1>5, <2>1, <2>2
  <2>4. ~(k < j)
    BY <1>1, <1>4, <1>6, <2>1, <2>2, Multiples
  <2> QED
    BY <1>4, <2>3, <2>4
<1> QED
  BY <1>7, <1>8, <1>9

LEMMA ScansBounded ==
  \E m \in Nat : \A i \in Services : ScanOf[i] <= m
<1> DEFINE S == {n \in Nat : \E m \in Nat : \A i \in 1 .. n : ScanOf[i] <= m}
<1>1. Count \in Nat /\ \A i \in 1 .. Count : ScanOf[i] \in Nat
  BY Constant DEF Services
<1>2. 0 \in S
  OBVIOUS
<1>3. ASSUME NEW n \in 0 + 1 .. Count, n - 1 \in S
      PROVE  n \in S
  <2>1. PICK m \in Nat : \A i \in 1 .. n - 1 : ScanOf[i] <= m
    BY <1>3
  <2> DEFINE k == IF m < ScanOf[n] THEN ScanOf[n] ELSE m
  <2>2. n \in 1 .. Count /\ k \in Nat /\ m <= k /\ ScanOf[n] <= k
    BY <1>1
  <2> HIDE DEF k
  <2>3. ASSUME NEW i \in 1 .. n
        PROVE  ScanOf[i] <= k
    <3>1. CASE i = n
      BY <2>2, <3>1
    <3>2. CASE i # n
      <4>1. i \in 1 .. n - 1 /\ i \in 1 .. Count
        BY <1>1, <2>2, <3>2
      <4>2. ScanOf[i] <= m /\ ScanOf[i] \in Nat
        BY <1>1, <2>1, <4>1
      <4> QED
        BY <2>2, <4>2
    <3> QED
      BY <3>1, <3>2
  <2> QED
    BY <2>2, <2>3
<1>4. Count \in S
  <2> HIDE DEF S
  <2>1. 0 .. Count \subseteq S
    BY <1>1, <1>2, <1>3, Induct
  <2> QED
    BY <1>1, <2>1
<1> QED
  BY <1>4 DEF Services

LEMMA LatestIs ==
  ASSUME NEW ids \in SUBSET Services
  PROVE  /\ LatestScan(ids) \in {0} \cup {ScanOf[i] : i \in ids}
         /\ LatestScan(ids) \in Nat
         /\ \A i \in ids : ScanOf[i] <= LatestScan(ids)
<1> DEFINE S == {0} \cup {ScanOf[i] : i \in ids}
<1>1. \A i \in ids : ScanOf[i] \in Nat
  BY Constant
<1>2. PICK m \in Nat : \A i \in Services : ScanOf[i] <= m
  BY ScansBounded
<1>3. S \in SUBSET Nat /\ S # {} /\ \A n \in S : n <= m
  BY <1>1, <1>2
<1>4. \A i \in ids : ScanOf[i] \in S
  OBVIOUS
<1> HIDE DEF S
<1>5. Max(S) \in S /\ \A n \in S : n <= Max(S)
  BY <1>3, MaxOf
<1> QED
  BY <1>3, <1>4, <1>5 DEF LatestScan, S

(* The newest scan of all is that of a page. *)
LEMMA LatestOnPage ==
  ASSUME NEW limit \in 1 .. Count
  PROVE  \E k \in Turned(limit) : LatestScan(Services) = LatestScan(Slice(limit, k * limit))
<1>1. \A ids : ids \in SUBSET Services =>
        /\ LatestScan(ids) \in {0} \cup {ScanOf[i] : i \in ids}
        /\ LatestScan(ids) \in Nat
        /\ \A i \in ids : ScanOf[i] <= LatestScan(ids)
  BY LatestIs
<1>2. \A k : Slice(limit, k * limit) \in SUBSET Services
  BY DEF Slice
<1>3. \A k : LatestScan(Slice(limit, k * limit)) <= LatestScan(Services)
  <2> TAKE k
  <2>1. /\ LatestScan(Slice(limit, k * limit))
             \in {0} \cup {ScanOf[i] : i \in Slice(limit, k * limit)}
        /\ LatestScan(Services) \in Nat /\ \A i \in Services : ScanOf[i] <= LatestScan(Services)
    BY <1>1, <1>2
  <2> QED
    BY <1>2, <2>1
<1>4. CASE LatestScan(Services) = 0
  <2>1. 0 \in Turned(limit)
    BY Constant DEF Turned
  <2>2. LatestScan(Slice(limit, 0 * limit)) \in Nat /\ LatestScan(Slice(limit, 0 * limit)) <= 0
    BY <1>1, <1>2, <1>3, <1>4
  <2> QED
    BY <1>4, <2>1, <2>2
<1>5. CASE LatestScan(Services) # 0
  <2>1. PICK i \in Services : LatestScan(Services) = ScanOf[i]
    BY <1>1, <1>5
  <2>2. PICK k \in Turned(limit) : i \in Slice(limit, k * limit)
    BY OnePage
  <2>3. /\ LatestScan(Slice(limit, k * limit)) \in Nat /\ LatestScan(Services) \in Nat
        /\ ScanOf[i] <= LatestScan(Slice(limit, k * limit))
    BY <1>1, <1>2, <2>2
  <2>4. LatestScan(Slice(limit, k * limit)) = LatestScan(Services)
    BY <1>3, <2>1, <2>3
  <2> QED
    BY <2>2, <2>4
<1> QED
  BY <1>4, <1>5

(* Whoever turns the pages sees what the whole graph shows: each service   *)
(* once, each connection with either of its ends, and the newest scan.     *)
THEOREM PagesAddUp == Spec => []PagesCover
<1>1. ASSUME IInv PROVE PagesCover
  <2>1. GraphSummary = [services |-> Cardinality(WholeGraph.services),
                        connections |-> Cardinality(WholeGraph.connections),
                        latest |-> WholeGraph.latest]
    <3>1. Cardinality(Services) = Count
      BY Constant, FS_Interval DEF Services
    <3> QED
      BY <3>1 DEF GraphSummary, WholeGraph
  <2>2. /\ WholeGraph.services = Services /\ WholeGraph.connections = connections
        /\ WholeGraph.latest = LatestScan(Services)
    BY DEF WholeGraph
  <2>3. ASSUME NEW limit \in 1 .. Count
        PROVE  /\ UNION {p.services : p \in Pages(limit)} = Services
               /\ \A i \in Services :
                    Cardinality({p \in Pages(limit) : i \in p.services}) = 1
               /\ UNION {p.connections : p \in Pages(limit)} = connections
               /\ \A p \in Pages(limit), c \in connections :
                    {c.source, c.target} \cap p.services # {}
                      => c \in p.connections
               /\ LatestScan(Services) \in {p.latest : p \in Pages(limit)}
    <3> DEFINE P(k) == GraphPage(limit, k * limit)
    <3>1. Pages(limit) = {P(k) : k \in Turned(limit)}
      BY DEF Pages, Turned
    <3>2. limit \in Nat \ {0} /\ Turned(limit) \subseteq Nat
      BY Constant DEF Turned
    <3>3. \A k \in Turned(limit) :
            /\ P(k).services = Slice(limit, k * limit)
            /\ P(k).latest = LatestScan(Slice(limit, k * limit))
            /\ P(k).connections \subseteq connections
            /\ \A c \in connections :
                 {c.source, c.target} \cap P(k).services # {} => c \in P(k).connections
      BY <3>2, PageOf, Multiples
    <3> HIDE DEF P
    <3>4. \A i \in Services : \E k \in Turned(limit) :
            /\ i \in P(k).services
            /\ \A j \in Turned(limit) : i \in P(j).services => j = k
      BY <3>2, <3>3, OnePage
    <3>5. UNION {p.services : p \in Pages(limit)} = Services
      <4>1. \A k \in Turned(limit) : P(k).services \subseteq Services
        BY <3>3 DEF Slice
      <4> QED
        BY <3>1, <3>4, <4>1
    <3>6. ASSUME NEW i \in Services
          PROVE  Cardinality({p \in Pages(limit) : i \in p.services}) = 1
      <4>1. PICK k \in Turned(limit) :
                   /\ i \in P(k).services
                   /\ \A j \in Turned(limit) : i \in P(j).services => j = k
        BY <3>4
      <4>2. {p \in Pages(limit) : i \in p.services} = {P(k)}
        BY <3>1, <4>1
      <4> QED
        BY <4>2, FS_Singleton
    <3>7. \A p \in Pages(limit), c \in connections :
            {c.source, c.target} \cap p.services # {} => c \in p.connections
      BY <3>1, <3>3
    <3>8. UNION {p.connections : p \in Pages(limit)} = connections
      <4>1. \A c \in connections : c.source \in Services
        BY <1>1 DEF IInv, RowsCanonical, ConnectionRow
      <4>2. \A c \in connections : \E k \in Turned(limit) : c \in P(k).connections
        BY <3>3, <3>4, <4>1
      <4> QED
        BY <3>1, <3>3, <4>2
    <3>9. LatestScan(Services) \in {p.latest : p \in Pages(limit)}
      <4>1. PICK k \in Turned(limit) :
                   LatestScan(Services) = LatestScan(Slice(limit, k * limit))
        BY LatestOnPage
      <4> QED
        BY <3>1, <3>3, <4>1
    <3> QED
      BY <3>5, <3>6, <3>7, <3>8, <3>9
  <2> QED
    BY <2>1, <2>2, <2>3 DEF PagesCover
<1> QED
  BY <1>1, Invariant, PTL

-----------------------------------------------------------------------------
(* Traversals.  Walks as functions, which are easily cut and turned round. *)

Chain(s, d, n) ==
  {p \in [0 .. n -> Services] :
     /\ p[0] = s
     /\ \A i \in 0 .. n - 1 : p[i + 1] \in Neighbours(p[i], d)}

(* The services at the end of one. *)
Ends(s, d, n) == {p[n] : p \in Chain(s, d, n)}

LEMMA NeighboursAre ==
  ASSUME IInv, NEW d \in Directions, NEW i
  PROVE  /\ Neighbours(i, d) \subseteq Services
         /\ \A j : j \in Neighbours(i, d) <=> i \in Neighbours(j, Opposite(d))
<1>1. \A c \in connections : c.source \in Services /\ c.target \in Services
  BY DEF IInv, RowsCanonical, ConnectionRow
<1>2. CASE d = "downstream"
  BY <1>1, <1>2 DEF Neighbours, Opposite
<1>3. CASE d = "upstream"
  BY <1>1, <1>3 DEF Neighbours, Opposite
<1> QED
  BY <1>2, <1>3 DEF Directions

LEMMA EndsZero ==
  ASSUME NEW s \in Services, NEW d
  PROVE  Ends(s, d, 0) = {s}
<1> DEFINE p == [i \in 0 .. 0 |-> s]
<1>1. p \in [0 .. 0 -> Services] /\ p[0] = s
  OBVIOUS
<1>2. p \in Chain(s, d, 0)
  BY <1>1 DEF Chain
<1>3. \A q \in Chain(s, d, 0) : q[0] = s
  BY DEF Chain
<1> QED
  BY <1>1, <1>2, <1>3 DEF Ends

LEMMA EndsNext ==
  ASSUME IInv, NEW s \in Services, NEW d \in Directions, NEW n \in Nat
  PROVE  Ends(s, d, n + 1) = UNION {Neighbours(i, d) : i \in Ends(s, d, n)}
<1>1. ASSUME NEW p \in Chain(s, d, n + 1)
      PROVE  \E q \in Chain(s, d, n) : p[n + 1] \in Neighbours(q[n], d)
  <2> DEFINE q == [i \in 0 .. n |-> p[i]]
  <2>1. /\ p \in [0 .. n + 1 -> Services] /\ p[0] = s
        /\ \A i \in 0 .. n : p[i + 1] \in Neighbours(p[i], d)
    BY DEF Chain
  <2>2. /\ q \in [0 .. n -> Services] /\ q[0] = s /\ q[n] = p[n]
        /\ \A i \in 0 .. n - 1 : q[i] = p[i] /\ q[i + 1] = p[i + 1] /\ i \in 0 .. n
    BY <2>1
  <2> HIDE DEF q
  <2>3. q \in Chain(s, d, n)
    BY <2>1, <2>2 DEF Chain
  <2> QED
    BY <2>1, <2>2, <2>3
<1>2. ASSUME NEW p \in Chain(s, d, n), NEW t \in Neighbours(p[n], d)
      PROVE  \E q \in Chain(s, d, n + 1) : q[n + 1] = t
  <2> DEFINE q == [i \in 0 .. n + 1 |-> IF i = n + 1 THEN t ELSE p[i]]
  <2>1. /\ p \in [0 .. n -> Services] /\ p[0] = s
        /\ \A i \in 0 .. n - 1 : p[i + 1] \in Neighbours(p[i], d)
    BY DEF Chain
  <2>2. t \in Services
    BY NeighboursAre
  <2>3. /\ q \in [0 .. n + 1 -> Services] /\ q[0] = s /\ q[n + 1] = t
        /\ \A i \in 0 .. n : q[i] = p[i]
    BY <2>1, <2>2
  <2> HIDE DEF q
  <2>4. \A i \in 0 .. n : q[i + 1] \in Neighbours(q[i], d)
    <3> TAKE i \in 0 .. n
    <3>1. CASE i = n
      BY <2>3, <3>1
    <3>2. CASE i # n
      <4>1. i \in 0 .. n - 1 /\ i + 1 \in 0 .. n
        BY <3>2
      <4> QED
        BY <2>1, <2>3, <4>1
    <3> QED
      BY <3>1, <3>2
  <2>5. q \in Chain(s, d, n + 1)
    BY <2>3, <2>4 DEF Chain
  <2> QED
    BY <2>3, <2>5
<1> QED
  BY <1>1, <1>2 DEF Ends

(* The definition of the property counts the same walks. *)
LEMMA AfterIsEnds ==
  ASSUME IInv, NEW s \in Services, NEW d \in Directions, NEW n \in Nat
  PROVE  After(s, d, n) = Ends(s, d, n)
<1> DEFINE Step(Z) == UNION {Neighbours(i, d) : i \in Z}
           G == [Z \in SUBSET Services |-> Step(Z)]
           Is(g) == g = [k \in 0 .. n |-> IF k = 0 THEN {s} ELSE Step(g[k - 1])]
           f == CHOOSE g : Is(g)
<1>1. After(s, d, n) = f[n]
  BY DEF After
<1>2. \E g : Is(g)
  <2>1. G \in [SUBSET Services -> SUBSET Services]
    BY NeighboursAre
  <2>2. {s} \in SUBSET Services
    OBVIOUS
  <2> DEFINE a == {s}
  <2> HIDE DEF G, a
  <2>3. PICK g : Follows(g, 0, n, SUBSET Services, a, G)
    <3>1. 0 \in Nat /\ a \in SUBSET Services
      BY <2>2 DEF a
    <3> QED
      BY <2>1, <3>1, Recursion
  <2>6. /\ g \in [0 .. n -> SUBSET Services]
        /\ \A k \in 0 .. n : g[k] = IF k = 0 THEN a ELSE G[g[k - 1]]
    BY <2>3 DEF Follows
  <2>4. \A k \in 0 .. n : k # 0 => G[g[k - 1]] = Step(g[k - 1])
    <3> TAKE k \in 0 .. n
    <3> HAVE k # 0
    <3>1. g[k - 1] \in SUBSET Services
      BY <2>6
    <3> QED
      BY <3>1 DEF G
  <2>5. Is(g)
    BY <2>4, <2>6 DEF a
  <2> QED
    BY <2>5
<1>3. Is(f)
  BY <1>2
<1> HIDE DEF f
<1> DEFINE S == {k \in 0 .. n : f[k] = Ends(s, d, k)}
<1>4. 0 \in S
  <2>1. f[0] = {s}
    BY <1>3
  <2> QED
    BY <2>1, EndsZero
<1>5. ASSUME NEW k \in 0 + 1 .. n, k - 1 \in S
      PROVE  k \in S
  <2>1. k \in 0 .. n /\ k # 0 /\ k - 1 \in Nat /\ (k - 1) + 1 = k
    OBVIOUS
  <2>2. f[k] = Step(f[k - 1])
    BY <1>3, <2>1
  <2>3. f[k - 1] = Ends(s, d, k - 1)
    BY <1>5
  <2>4. Ends(s, d, k) = Step(Ends(s, d, k - 1))
    BY <2>1, EndsNext
  <2> QED
    BY <2>1, <2>2, <2>3, <2>4
<1>6. n \in S
  <2> HIDE DEF S
  <2>1. 0 .. n \subseteq S
    BY <1>4, <1>5, Induct
  <2> QED
    BY <2>1
<1> QED
  BY <1>1, <1>6

(* A beginning of a walk is one. *)
LEMMA Prefix ==
  ASSUME NEW s, NEW d, NEW n \in Nat, NEW p \in Chain(s, d, n), NEW k \in 0 .. n
  PROVE  p[k] \in Services /\ p[k] \in Ends(s, d, k)
<1> DEFINE q == [i \in 0 .. k |-> p[i]]
<1>1. /\ p \in [0 .. n -> Services] /\ p[0] = s
      /\ \A i \in 0 .. n - 1 : p[i + 1] \in Neighbours(p[i], d)
  BY DEF Chain
<1>2. /\ q \in [0 .. k -> Services] /\ q[0] = s /\ q[k] = p[k]
      /\ \A i \in 0 .. k - 1 : q[i] = p[i] /\ q[i + 1] = p[i + 1] /\ i \in 0 .. n - 1
  BY <1>1
<1> HIDE DEF q
<1>3. q \in Chain(s, d, k)
  BY <1>1, <1>2 DEF Chain
<1> QED
  BY <1>1, <1>2, <1>3 DEF Ends

(* A walk that is turned round leads back. *)
LEMMA TurnedRound ==
  ASSUME IInv, NEW s \in Services, NEW d \in Directions, NEW n \in Nat,
         NEW t \in Ends(s, d, n)
  PROVE  s \in Ends(t, Opposite(d), n)
<1>1. PICK p \in Chain(s, d, n) : p[n] = t
  BY DEF Ends
<1> DEFINE q == [i \in 0 .. n |-> p[n - i]]
<1>2. /\ p \in [0 .. n -> Services] /\ p[0] = s
      /\ \A i \in 0 .. n - 1 : p[i + 1] \in Neighbours(p[i], d)
  BY DEF Chain
<1>3. \A i \in 0 .. n : n - i \in 0 .. n
  OBVIOUS
<1>4. /\ q \in [0 .. n -> Services] /\ q[0] = t /\ q[n] = s
      /\ \A i \in 0 .. n : q[i] = p[n - i]
  BY <1>1, <1>2, <1>3
<1> HIDE DEF q
<1>5. \A i \in 0 .. n - 1 : q[i + 1] \in Neighbours(q[i], Opposite(d))
  <2> TAKE i \in 0 .. n - 1
  <2> DEFINE j == n - (i + 1)
  <2>1. j \in 0 .. n - 1 /\ j + 1 = n - i /\ i + 1 \in 0 .. n /\ i \in 0 .. n
    OBVIOUS
  <2>2. q[i + 1] = p[j] /\ q[i] = p[j + 1]
    BY <1>4, <2>1
  <2> HIDE DEF j
  <2>3. p[j + 1] \in Neighbours(p[j], d)
    BY <1>2, <2>1
  <2> QED
    BY <2>2, <2>3, NeighboursAre
<1>6. q \in Chain(t, Opposite(d), n)
  BY <1>4, <1>5 DEF Chain
<1> QED
  BY <1>4, <1>6 DEF Ends

First(s, d, t, n) == t \in Ends(s, d, n) /\ \A m \in 0 .. n - 1 : t \notin Ends(s, d, m)

LEMMA FirstExists ==
  ASSUME NEW s, NEW d, NEW t, NEW n \in Nat, t \in Ends(s, d, n)
  PROVE  \E m \in 0 .. n : First(s, d, t, m)
<1> DEFINE S == {m \in Nat : t \in Ends(s, d, m)}
<1>1. S \in SUBSET Nat /\ n \in S
  OBVIOUS
<1>2. PICK m \in S : \A k \in S : m <= k
  <2> HIDE DEF S
  <2> QED
    BY <1>1, Least
<1>3. m \in 0 .. n /\ t \in Ends(s, d, m)
  BY <1>1, <1>2
<1>4. \A k \in 0 .. m - 1 : t \notin Ends(s, d, k)
  BY <1>2
<1> QED
  BY <1>3, <1>4 DEF First

(* A shortest walk meets no service twice. *)
LEMMA ShortestIsSimple ==
  ASSUME NEW s, NEW d, NEW n \in Nat, NEW p \in Chain(s, d, n), First(s, d, p[n], n),
         NEW i \in 0 .. n, NEW j \in 0 .. n, i < j
  PROVE  p[i] # p[j]
<1> SUFFICES ASSUME p[i] = p[j] PROVE FALSE
  OBVIOUS
<1> DEFINE g == j - i
           m == n - g
           q == [k \in 0 .. m |-> IF k <= i THEN p[k] ELSE p[k + g]]
<1>1. /\ p \in [0 .. n -> Services] /\ p[0] = s
      /\ \A k \in 0 .. n - 1 : p[k + 1] \in Neighbours(p[k], d)
  BY DEF Chain
<1>2. g \in Nat /\ g > 0 /\ m \in 0 .. n - 1 /\ i <= m /\ m + g = n /\ i + g = j /\ g <= n
  OBVIOUS
<1> HIDE DEF g, m
<1>3. /\ q \in [0 .. m -> Services] /\ q[0] = s
      /\ \A k \in 0 .. m : q[k] = IF k <= i THEN p[k] ELSE p[k + g]
  BY <1>1, <1>2
<1> HIDE DEF q
<1>4. q[m] = p[n]
  <2>1. CASE m = i
    BY <1>2, <1>3, <2>1
  <2>2. CASE m # i
    BY <1>2, <1>3, <2>2
  <2> QED
    BY <2>1, <2>2
<1>5. \A k \in 0 .. m - 1 : q[k + 1] \in Neighbours(q[k], d)
  <2> TAKE k \in 0 .. m - 1
  <2>1. k \in 0 .. m /\ k + 1 \in 0 .. m /\ k \in 0 .. n - 1 /\ k + g \in 0 .. n - 1
        /\ (k + 1) + g = (k + g) + 1
    BY <1>2
  <2>2. CASE k < i
    BY <1>1, <1>3, <2>1, <2>2
  <2>3. CASE k = i
    <3>1. q[k] = p[k + g] /\ q[k + 1] = p[(k + g) + 1]
      BY <1>2, <1>3, <2>1, <2>3
    <3> QED
      BY <1>1, <2>1, <3>1
  <2>4. CASE k > i
    <3>1. q[k] = p[k + g] /\ q[k + 1] = p[(k + g) + 1]
      BY <1>2, <1>3, <2>1, <2>4
    <3> QED
      BY <1>1, <2>1, <3>1
  <2> QED
    BY <2>2, <2>3, <2>4
<1>6. q \in Chain(s, d, m)
  BY <1>3, <1>5 DEF Chain
<1>7. p[n] \in Ends(s, d, m)
  BY <1>4, <1>6 DEF Ends
<1> QED
  BY <1>2, <1>7 DEF First

-----------------------------------------------------------------------------
(* What the recursive queries find.                                        *)

Levels(w, s, d, padded) ==
  /\ w \in [1 .. MaxDepth -> SUBSET Seq(Services)]
  /\ w[1] = {<<s, t>> : t \in Neighbours(s, d)}
  /\ \A n \in 2 .. MaxDepth :
       w[n] = UNION {{Append(p, t) : t \in Neighbours(Last(p), d) \ Seen(p, padded)} :
                     p \in w[n - 1]}

LEMMA WalksLevels ==
  ASSUME IInv, NEW s \in Services, NEW d \in Directions, NEW padded
  PROVE  \E w : Levels(w, s, d, padded)
                  /\ Walks(s, d, padded) = UNION {w[n] : n \in 1 .. MaxDepth}
<1> DEFINE X == SUBSET Seq(Services)
           a == {<<s, t>> : t \in Neighbours(s, d)}
           Step(Z) == UNION {{Append(p, t) : t \in Neighbours(Last(p), d) \ Seen(p, padded)} :
                             p \in Z}
           G == [Z \in X |-> Step(Z)]
           Is(g) == g = [n \in 1 .. MaxDepth |-> IF n = 1 THEN a ELSE Step(g[n - 1])]
           f == CHOOSE g : Is(g)
<1>1. Walks(s, d, padded) = UNION {f[n] : n \in 1 .. MaxDepth}
  BY DEF Walks
<1>2. MaxDepth \in Nat /\ 1 <= MaxDepth
  BY Constant
<1>3. a \in X
  <2>1. \A t \in Neighbours(s, d) : <<s, t>> \in Seq(Services)
    BY NeighboursAre
  <2> QED
    BY <2>1
<1>4. G \in [X -> X]
  <2>1. ASSUME NEW Z \in X, NEW p \in Z, NEW t \in Neighbours(Last(p), d)
        PROVE  Append(p, t) \in Seq(Services)
    <3>1. p \in Seq(Services) /\ t \in Services
      BY NeighboursAre
    <3> QED
      BY <3>1, AppendProperties
  <2>2. \A Z \in X : Step(Z) \in X
    BY <2>1
  <2> HIDE DEF Step, X
  <2> QED
    BY <2>2
<1>5. PICK g : Follows(g, 1, MaxDepth, X, a, G)
  <2>1. 1 \in Nat
    OBVIOUS
  <2> HIDE DEF a, X, G
  <2> QED
    BY <1>2, <1>3, <1>4, <2>1, Recursion
<1> HIDE DEF a, X, Step
<1>12. /\ g \in [1 .. MaxDepth -> X]
       /\ \A n \in 1 .. MaxDepth : g[n] = IF n = 1 THEN a ELSE G[g[n - 1]]
  <2> HIDE DEF G
  <2> QED
    BY <1>5 DEF Follows
<1>6. \A n \in 1 .. MaxDepth : n # 1 => G[g[n - 1]] = Step(g[n - 1])
  <2> TAKE n \in 1 .. MaxDepth
  <2> HAVE n # 1
  <2>1. g[n - 1] \in X
    BY <1>2, <1>12
  <2> QED
    BY <2>1
<1>7. Is(g)
  <2> HIDE DEF G
  <2> QED
    BY <1>6, <1>12
<1>8. Is(f)
  BY <1>7
<1> HIDE DEF f
<1>9. f[1] = a
  BY <1>2, <1>8
<1>10. \A n \in 2 .. MaxDepth : f[n] = Step(f[n - 1])
  BY <1>2, <1>8
<1>11. f \in [1 .. MaxDepth -> X]
  <2> DEFINE S == {n \in Nat : f[n] \in X}
  <2>1. 1 \in S
    BY <1>3, <1>9
  <2>2. ASSUME NEW n \in 1 + 1 .. MaxDepth, n - 1 \in S
        PROVE  n \in S
    <3>1. n \in 2 .. MaxDepth /\ n \in Nat
      BY <1>2
    <3>2. f[n] = Step(f[n - 1]) /\ f[n - 1] \in X
      BY <1>10, <2>2, <3>1
    <3>3. Step(f[n - 1]) = G[f[n - 1]] /\ G[f[n - 1]] \in X
      BY <1>4, <3>2
    <3> QED
      BY <3>1, <3>2, <3>3
  <2>3. \A n \in 1 .. MaxDepth : f[n] \in X
    <3>1. 1 .. MaxDepth \subseteq S
      <4> HIDE DEF S
      <4> QED
        BY <1>2, <2>1, <2>2, Induct
    <3> QED
      BY <3>1
  <2>4. DOMAIN f = 1 .. MaxDepth /\ f = [n \in 1 .. MaxDepth |-> f[n]]
    BY <1>8
  <2> QED
    BY <2>3, <2>4
<1>13. Levels(f, s, d, padded)
  BY <1>9, <1>10, <1>11 DEF Levels, a, X, Step
<1> QED
  BY <1>1, <1>13

(* Every walk of the queries is one. *)
LEMMA WalksAreChains ==
  ASSUME IInv, NEW s \in Services, NEW d \in Directions, NEW padded, NEW w,
         Levels(w, s, d, padded), NEW n \in 1 .. MaxDepth, NEW p \in w[n]
  PROVE  p \in Seq(Services) /\ Len(p) = n + 1 /\ Last(p) \in Ends(s, d, n)
<1> DEFINE Sound(k) == \A q \in w[k] : Len(q) = k + 1 /\ Last(q) \in Ends(s, d, k)
           S == {k \in Nat : Sound(k)}
<1>1. MaxDepth \in Nat
  BY Constant
<1>2. 1 \in S
  <2>1. ASSUME NEW t \in Neighbours(s, d)
        PROVE  Len(<<s, t>>) = 1 + 1 /\ Last(<<s, t>>) \in Ends(s, d, 1)
    <3>1. Ends(s, d, 0 + 1) = UNION {Neighbours(i, d) : i \in Ends(s, d, 0)}
      BY EndsNext
    <3>2. t \in Ends(s, d, 1)
      BY <3>1, EndsZero
    <3>3. Len(<<s, t>>) = 2 /\ Last(<<s, t>>) = t
      BY DEF Last
    <3> QED
      BY <3>2, <3>3
  <2>2. w[1] = {<<s, t>> : t \in Neighbours(s, d)}
    BY DEF Levels
  <2>3. Sound(1)
    BY <2>1, <2>2
  <2> QED
    BY <2>3
<1>3. ASSUME NEW k \in 1 + 1 .. MaxDepth, k - 1 \in S
      PROVE  k \in S
  <2>1. k \in 2 .. MaxDepth /\ k - 1 \in 1 .. MaxDepth /\ k \in Nat /\ k - 1 \in Nat
        /\ (k - 1) + 1 = k
    BY <1>1
  <2>2. ASSUME NEW q \in w[k - 1], NEW t \in Neighbours(Last(q), d)
        PROVE  Len(Append(q, t)) = k + 1 /\ Last(Append(q, t)) \in Ends(s, d, k)
    <3>1. q \in Seq(Services) /\ t \in Services
      BY <2>1, NeighboursAre DEF Levels
    <3>2. Len(q) = k /\ Last(q) \in Ends(s, d, k - 1)
      BY <1>3, <2>1
    <3>3. Len(Append(q, t)) = Len(q) + 1 /\ Append(q, t)[Len(q) + 1] = t
      BY <3>1, AppendProperties
    <3>4. Last(Append(q, t)) = t
      BY <3>3 DEF Last
    <3>5. Ends(s, d, k) = UNION {Neighbours(i, d) : i \in Ends(s, d, k - 1)}
      BY <2>1, EndsNext
    <3>6. t \in Ends(s, d, k)
      BY <3>2, <3>5
    <3> QED
      BY <2>1, <3>2, <3>3, <3>4, <3>6
  <2>3. w[k] = UNION {{Append(q, t) : t \in Neighbours(Last(q), d) \ Seen(q, padded)} :
                      q \in w[k - 1]}
    BY <2>1 DEF Levels
  <2>4. Sound(k)
    BY <2>2, <2>3
  <2> QED
    BY <2>1, <2>4
<1>4. n \in S
  <2>1. 1 .. MaxDepth \subseteq S
    <3> HIDE DEF S
    <3> QED
      BY <1>1, <1>2, <1>3, Induct
  <2> QED
    BY <2>1
<1>5. p \in Seq(Services)
  BY DEF Levels
<1> QED
  BY <1>4, <1>5

(* And a walk that meets no service twice is one of the queries', whatever *)
(* they see of the path.                                                   *)
LEMMA SimpleChainsAreWalks ==
  ASSUME IInv, NEW s \in Services, NEW d \in Directions, NEW padded, NEW w,
         Levels(w, s, d, padded), NEW n \in 1 .. MaxDepth, NEW p \in Chain(s, d, n),
         \A i, j \in 0 .. n : i < j => p[i] # p[j]
  PROVE  \E q \in w[n] : Last(q) = p[n]
<1> DEFINE Q(k) == [i \in 1 .. k + 1 |-> p[i - 1]]
           S == {k \in Nat : Q(k) \in w[k]}
<1>1. /\ MaxDepth \in Nat /\ n \in Nat
      /\ p \in [0 .. n -> Services] /\ p[0] = s
      /\ \A i \in 0 .. n - 1 : p[i + 1] \in Neighbours(p[i], d)
  BY Constant DEF Chain
<1>2. ASSUME NEW k \in 0 .. n
      PROVE  /\ Q(k) \in Seq(Services) /\ Len(Q(k)) = k + 1
             /\ \A i \in 1 .. k + 1 : Q(k)[i] = p[i - 1]
             /\ Last(Q(k)) = p[k]
  <2>1. \A i \in 1 .. k + 1 : i - 1 \in 0 .. n
    BY <1>1
  <2>2. Q(k) \in [1 .. k + 1 -> Services] /\ k + 1 \in Nat
    BY <1>1, <2>1
  <2>3. \A i \in 1 .. k + 1 : Q(k)[i] = p[i - 1]
    OBVIOUS
  <2> HIDE DEF Q
  <2>4. Q(k) \in Seq(Services) /\ Len(Q(k)) = k + 1
    BY <2>2, FunctionIsSeq
  <2>5. Last(Q(k)) = p[k]
    BY <2>3, <2>4 DEF Last
  <2> QED
    BY <2>3, <2>4, <2>5
<1> HIDE DEF Q
<1>3. 1 \in S
  <2>1. 1 \in 0 .. n /\ 0 \in 0 .. n - 1
    BY <1>1
  <2> DEFINE t == p[1]
  <2>2. t \in Neighbours(s, d) /\ t \in Services
    BY <1>1, <2>1
  <2>3. <<s, t>> \in Seq(Services) /\ Len(<<s, t>>) = 2
    BY <2>2
  <2>4. Q(1) = <<s, t>>
    <3>1. /\ Q(1) \in Seq(Services) /\ Len(Q(1)) = 1 + 1
          /\ \A i \in 1 .. 1 + 1 : Q(1)[i] = p[i - 1]
      BY <1>2, <2>1
    <3>2. \A i \in 1 .. 2 : Q(1)[i] = <<s, t>>[i]
      <4>1. Q(1)[1] = s /\ Q(1)[2] = t
        BY <1>1, <3>1
      <4>2. \A i \in 1 .. 2 : i = 1 \/ i = 2
        OBVIOUS
      <4> QED
        BY <4>1, <4>2
    <3>3. Len(Q(1)) = 2
      BY <3>1
    <3> QED
      BY <2>3, <3>1, <3>2, <3>3, SeqEqual
  <2> QED
    BY <2>2, <2>4 DEF Levels
<1>4. ASSUME NEW k \in 1 + 1 .. n, k - 1 \in S
      PROVE  k \in S
  <2>1. /\ k \in 2 .. MaxDepth /\ k \in Nat /\ k - 1 \in 0 .. n - 1 /\ k \in 0 .. n
        /\ k - 1 \in 0 .. n /\ (k - 1) + 1 = k
    BY <1>1
  <2> DEFINE q == Q(k - 1)
             t == p[k]
  <2>2. /\ q \in w[k - 1] /\ q \in Seq(Services) /\ Len(q) = k
        /\ \A i \in 1 .. k : q[i] = p[i - 1]
        /\ Last(q) = p[k - 1]
    BY <1>2, <1>4, <2>1
  <2>3. t \in Neighbours(Last(q), d) /\ t \in Services
    BY <1>1, <2>1, <2>2
  <2> HIDE DEF q
  <2>4. \A i \in 1 .. k : q[i] # t
    BY <1>1, <2>1, <2>2
  <2>5. t \notin Seen(q, padded)
    <3>1. DOMAIN q = 1 .. k
      BY <2>2, LenProperties
    <3>2. t \notin Delimited(q)
      BY <2>4, <3>1 DEF Delimited, ToSet
    <3>3. t \notin Undelimited(q)
      BY <2>1, <2>2, <2>4 DEF Undelimited
    <3> QED
      BY <3>2, <3>3 DEF Seen
  <2>6. Append(q, t) \in w[k]
    <3>1. w[k] = UNION {{Append(x, y) : y \in Neighbours(Last(x), d) \ Seen(x, padded)} :
                        x \in w[k - 1]}
      BY <2>1 DEF Levels
    <3>2. t \in Neighbours(Last(q), d) \ Seen(q, padded)
      BY <2>3, <2>5
    <3> HIDE DEF t
    <3> QED
      BY <2>2, <3>1, <3>2
  <2>7. Q(k) = Append(q, t)
    <3>1. Q(k) \in Seq(Services) /\ Len(Q(k)) = k + 1 /\ \A i \in 1 .. k + 1 : Q(k)[i] = p[i - 1]
      BY <1>2, <2>1
    <3>2. /\ Append(q, t) \in Seq(Services) /\ Len(Append(q, t)) = k + 1
          /\ \A i \in 1 .. k : Append(q, t)[i] = q[i]
          /\ Append(q, t)[k + 1] = t
      BY <2>2, <2>3, AppendProperties
    <3>3. \A i \in 1 .. k + 1 : Q(k)[i] = Append(q, t)[i]
      <4> TAKE i \in 1 .. k + 1
      <4>1. CASE i \in 1 .. k
        BY <2>2, <3>1, <3>2, <4>1
      <4>2. CASE i = k + 1
        <5>1. i - 1 = k
          BY <2>1, <4>2
        <5> QED
          BY <3>1, <3>2, <4>2, <5>1
      <4>3. i \in 1 .. k \/ i = k + 1
        BY <2>1
      <4> QED
        BY <4>1, <4>2, <4>3
    <3> QED
      BY <3>1, <3>2, <3>3, SeqEqual
  <2> QED
    BY <2>1, <2>6, <2>7
<1>5. Q(n) \in w[n]
  <2>1. 1 .. n \subseteq S
    <3> HIDE DEF S
    <3> QED
      BY <1>1, <1>3, <1>4, Induct
  <2> QED
    BY <1>1, <2>1
<1>6. n \in 0 .. n
  BY <1>1
<1> QED
  BY <1>2, <1>5, <1>6

-----------------------------------------------------------------------------
(* Rows and distances.                                                     *)

LEMMA RowsAreEnds ==
  ASSUME IInv, NEW s \in Services, NEW d \in Directions, NEW padded,
         NEW r \in Rows(Walks(s, d, padded))
  PROVE  /\ r = [id |-> r.id, depth |-> r.depth]
         /\ r.depth \in 1 .. MaxDepth /\ r.id \in Ends(s, d, r.depth)
<1>1. PICK w : Levels(w, s, d, padded)
                 /\ Walks(s, d, padded) = UNION {w[n] : n \in 1 .. MaxDepth}
  BY WalksLevels
<1>2. PICK n \in 1 .. MaxDepth :
        \E p \in w[n] : r = [id |-> Last(p), depth |-> Len(p) - 1]
  BY <1>1 DEF Rows
<1>5. PICK p \in w[n] : r = [id |-> Last(p), depth |-> Len(p) - 1]
  BY <1>2
<1>3. Len(p) = n + 1 /\ Last(p) \in Ends(s, d, n)
  BY <1>1, WalksAreChains
<1>4. r.id = Last(p) /\ r.depth = n
  BY <1>5, <1>3
<1> QED
  BY <1>5, <1>3, <1>4

LEMMA ShortestAreRows ==
  ASSUME IInv, NEW s \in Services, NEW d \in Directions, NEW padded,
         NEW n \in Nat, NEW p \in Chain(s, d, n), First(s, d, p[n], n),
         NEW k \in 1 .. MaxDepth, k <= n
  PROVE  [id |-> p[k], depth |-> k] \in Rows(Walks(s, d, padded))
<1>1. PICK w : Levels(w, s, d, padded)
                 /\ Walks(s, d, padded) = UNION {w[m] : m \in 1 .. MaxDepth}
  BY WalksLevels
<1> DEFINE c == [i \in 0 .. k |-> p[i]]
<1>2. k \in Nat /\ k \in 0 .. n /\ \A i \in 0 .. k : i \in 0 .. n
  OBVIOUS
<1>3. /\ p \in [0 .. n -> Services] /\ p[0] = s
      /\ \A i \in 0 .. n - 1 : p[i + 1] \in Neighbours(p[i], d)
  BY DEF Chain
<1>4. /\ c \in [0 .. k -> Services] /\ c[0] = s /\ \A i \in 0 .. k : c[i] = p[i]
  BY <1>2, <1>3
<1> HIDE DEF c
<1>5. c \in Chain(s, d, k)
  <2>1. \A i \in 0 .. k - 1 : c[i] = p[i] /\ c[i + 1] = p[i + 1] /\ i \in 0 .. n - 1
    BY <1>4
  <2> QED
    BY <1>3, <1>4, <2>1 DEF Chain
<1>6. \A i, j \in 0 .. k : i < j => c[i] # c[j]
  BY <1>2, <1>4, ShortestIsSimple
<1>7. PICK q \in w[k] : Last(q) = c[k]
  BY <1>1, <1>5, <1>6, SimpleChainsAreWalks
<1>8. Len(q) - 1 = k /\ Last(q) = p[k]
  <2>1. Len(q) = k + 1
    BY <1>1, WalksAreChains
  <2> QED
    BY <1>2, <1>4, <1>7, <2>1
<1>9. q \in Walks(s, d, padded)
  BY <1>1
<1> QED
  BY <1>8, <1>9 DEF Rows

LEMMA DistanceIs ==
  ASSUME IInv, NEW s \in Services, NEW d \in Directions, NEW t, t # s
  PROVE  LET D == Distance(s, t, d)
         IN  /\ D = 0 \/ (D \in 1 .. MaxDepth /\ First(s, d, t, D))
             /\ \A n \in 1 .. MaxDepth : t \in Ends(s, d, n) => D # 0 /\ D <= n
             /\ D \in Nat
<1> DEFINE ns == {n \in 1 .. MaxDepth : t \in Ends(s, d, n)}
           D == Distance(s, t, d)
<1>1. \A n \in 1 .. MaxDepth : n \in Nat /\ After(s, d, n) = Ends(s, d, n)
  BY Constant, AfterIsEnds
<1>2. {n \in 1 .. MaxDepth : t \in After(s, d, n)} = ns
  BY <1>1
<1>3. D = IF ns = {} THEN 0 ELSE Min(ns)
  BY <1>2 DEF Distance
<1> HIDE DEF D
<1>4. CASE ns = {}
  BY <1>3, <1>4 DEF D
<1>5. CASE ns # {}
  <2>1. ns \in SUBSET Nat
    BY <1>1
  <2> HIDE DEF ns
  <2>2. Min(ns) \in ns /\ \A n \in ns : Min(ns) <= n
    BY <1>5, <2>1, MinOf
  <2>3. D \in 1 .. MaxDepth /\ t \in Ends(s, d, D) /\ D \in Nat
        /\ \A n \in 1 .. MaxDepth : t \in Ends(s, d, n) => D <= n
    BY <1>3, <1>5, <2>1, <2>2 DEF ns
  <2>4. ASSUME NEW m \in 0 .. D - 1
        PROVE  t \notin Ends(s, d, m)
    <3>1. CASE m = 0
      BY <3>1, EndsZero
    <3>2. CASE m # 0
      <4>1. m \in 1 .. MaxDepth /\ ~(D <= m)
        BY <2>3, <3>2, Constant
      <4> QED
        BY <2>3, <4>1
    <3> QED
      BY <3>1, <3>2
  <2>5. First(s, d, t, D)
    BY <2>3, <2>4 DEF First
  <2>6. D # 0
    BY <2>3
  <2> QED
    BY <2>3, <2>5, <2>6 DEF D
<1> QED
  BY <1>4, <1>5 DEF D

(* Whatever a query sees of its path, of another service its rows have the *)
(* distance, and none that is less.                                        *)
LEMMA RowsAndDistance ==
  ASSUME IInv, NEW s \in Services, NEW d \in Directions, NEW padded, NEW t, t # s
  PROVE  LET D == Distance(s, t, d)
             R == Rows(Walks(s, d, padded))
         IN  /\ D \in Nat
             /\ D # 0 => [id |-> t, depth |-> D] \in R
             /\ \A r \in R : r.id = t => D # 0 /\ D <= r.depth
<1> DEFINE D == Distance(s, t, d)
           R == Rows(Walks(s, d, padded))
<1>1. /\ D = 0 \/ (D \in 1 .. MaxDepth /\ First(s, d, t, D))
      /\ \A n \in 1 .. MaxDepth : t \in Ends(s, d, n) => D # 0 /\ D <= n
      /\ D \in Nat
  BY DistanceIs
<1>2. \A r \in R : r.depth \in 1 .. MaxDepth /\ r.id \in Ends(s, d, r.depth)
  BY RowsAreEnds
<1> HIDE DEF D, R
<1>3. ASSUME D # 0
      PROVE  [id |-> t, depth |-> D] \in R
  <2>1. D \in 1 .. MaxDepth /\ First(s, d, t, D) /\ D \in Nat /\ D <= D
    BY <1>1, <1>3
  <2>2. PICK p \in Chain(s, d, D) : p[D] = t
    BY <2>1 DEF First, Ends
  <2> QED
    BY <2>1, <2>2, ShortestAreRows DEF R
<1> QED
  BY <1>1, <1>2, <1>3 DEF D, R

(* One step reaches the neighbours.                                        *)
LEMMA FirstRows ==
  ASSUME IInv, NEW s \in Services, NEW d \in Directions, NEW padded
  PROVE  {r.id : r \in {q \in Rows(Walks(s, d, padded)) : q.depth = 1}} = Neighbours(s, d)
<1> DEFINE R == Rows(Walks(s, d, padded))
<1>1. PICK w : Levels(w, s, d, padded)
                 /\ Walks(s, d, padded) = UNION {w[m] : m \in 1 .. MaxDepth}
  BY WalksLevels
<1>2. Ends(s, d, 1) = Neighbours(s, d)
  <2>1. Ends(s, d, 0 + 1) = UNION {Neighbours(i, d) : i \in Ends(s, d, 0)}
    BY EndsNext
  <2> QED
    BY <2>1, EndsZero
<1>3. \A r \in R : r.depth = 1 => r.id \in Neighbours(s, d)
  BY <1>2, RowsAreEnds
<1>4. ASSUME NEW t \in Neighbours(s, d)
      PROVE  \E r \in R : r.depth = 1 /\ r.id = t
  <2>1. <<s, t>> \in w[1] /\ 1 \in 1 .. MaxDepth
    BY <1>1, Constant DEF Levels
  <2>2. <<s, t>> \in Walks(s, d, padded)
    BY <1>1, <2>1
  <2>3. Last(<<s, t>>) = t /\ Len(<<s, t>>) - 1 = 1
    BY DEF Last
  <2>4. [id |-> t, depth |-> 1] \in R
    BY <2>2, <2>3 DEF Rows
  <2> QED
    BY <2>4
<1> HIDE DEF R
<1>5. {r.id : r \in {q \in R : q.depth = 1}} = Neighbours(s, d)
  BY <1>3, <1>4
<1> QED
  BY <1>5 DEF R

LEMMA FarEnds ==
  ASSUME NEW s, NEW d
  PROVE  {FarEnd(c, d) : c \in DirectImpact(s, d)} = Neighbours(s, d)
BY DEF FarEnd, DirectImpact, Neighbours

LEMMA NamedIs ==
  ASSUME NEW n \in {NameOf[i] : i \in Services}
  PROVE  Named(n) \in Services /\ NameOf[Named(n)] = n
<1> DEFINE S == {i \in Services : NameOf[i] = n}
<1>1. S \in SUBSET Nat /\ S # {}
  BY Constant DEF Services
<1> HIDE DEF S
<1>2. Min(S) \in S
  BY <1>1, MinOf
<1> QED
  BY <1>2 DEF Named, S

-----------------------------------------------------------------------------
(* The three traversals.                                                   *)

LEMMA ImpactRows ==
  ASSUME IInv, NEW s \in Services, NEW d \in Directions, NEW t, t # s
  PROVE  LET D == Distance(s, t, d)
         IN  /\ \A r \in TransitiveImpact(s, d) : r.id = t =>
                  D # 0 /\ r = [id |-> t, depth |-> D]
             /\ D # 0 => [id |-> t, depth |-> D] \in TransitiveImpact(s, d)
<1> DEFINE D == Distance(s, t, d)
           R == Rows(Walks(s, d, TRUE))
<1>1. /\ D \in Nat
      /\ D # 0 => [id |-> t, depth |-> D] \in R
      /\ \A r \in R : r.id = t => D # 0 /\ D <= r.depth
  BY RowsAndDistance
<1>2. \A r \in R : r = [id |-> r.id, depth |-> r.depth] /\ r.depth \in Nat
  <2>1. \A r \in R : r = [id |-> r.id, depth |-> r.depth] /\ r.depth \in 1 .. MaxDepth
    BY RowsAreEnds
  <2> HIDE DEF R
  <2> QED
    BY <2>1, Constant
<1>3. TransitiveImpact(s, d) = {r \in R : \A q \in R : q.id = r.id => r.depth <= q.depth}
  BY DEF TransitiveImpact
<1> HIDE DEF D, R
<1>4. ASSUME D # 0
      PROVE  [id |-> t, depth |-> D] \in TransitiveImpact(s, d)
  BY <1>1, <1>3, <1>4
<1>5. ASSUME NEW r \in TransitiveImpact(s, d), r.id = t
      PROVE  D # 0 /\ r = [id |-> t, depth |-> D]
  <2>1. r \in R /\ D # 0 /\ D <= r.depth /\ r.depth \in Nat
    BY <1>1, <1>2, <1>3, <1>5
  <2>2. r.depth <= [id |-> t, depth |-> D].depth
    BY <1>1, <1>3, <1>5, <2>1
  <2>3. r.depth = D
    BY <1>1, <2>1, <2>2
  <2> QED
    BY <1>2, <1>5, <2>1, <2>3
<1> QED
  BY <1>4, <1>5 DEF D

LEMMA ImpactHolds ==
  ASSUME IInv
  PROVE  ImpactExact
<1> SUFFICES ASSUME NEW s \in Services, NEW d \in Directions
             PROVE  LET rows == TransitiveImpact(s, d) IN
                      /\ \A t \in Services \ {s} :
                           {r.depth : r \in {q \in rows : q.id = t}}
                             = {Distance(s, t, d)} \ {0}
                      /\ \A t \in Found(rows) \ {s} :
                           s \in Found(TransitiveImpact(t, Opposite(d)))
                      /\ {FarEnd(c, d) : c \in DirectImpact(s, d)} \ {s}
                           = {r.id : r \in {q \in rows : q.depth = 1}} \ {s}
  BY DEF ImpactExact
<1> DEFINE rows == TransitiveImpact(s, d)
<1>1. ASSUME NEW t \in Services \ {s}
      PROVE  {r.depth : r \in {q \in rows : q.id = t}} = {Distance(s, t, d)} \ {0}
  <2> DEFINE D == Distance(s, t, d)
  <2>1. /\ \A r \in rows : r.id = t => D # 0 /\ r = [id |-> t, depth |-> D]
        /\ D # 0 => [id |-> t, depth |-> D] \in rows
    BY ImpactRows
  <2> HIDE DEF D, rows
  <2>2. \A r \in rows : r.id = t => D # 0 /\ r.depth = D
    BY <2>1
  <2>3. D # 0 => \E r \in rows : r.id = t /\ r.depth = D
    BY <2>1
  <2>4. {r.depth : r \in {q \in rows : q.id = t}} = {D} \ {0}
    BY <2>2, <2>3
  <2> QED
    BY <2>4 DEF D
<1>2. ASSUME NEW t \in Found(rows) \ {s}
      PROVE  s \in Found(TransitiveImpact(t, Opposite(d)))
  <2>1. PICK r \in rows : r.id = t
    BY DEF Found
  <2>2. r.depth \in 1 .. MaxDepth /\ t \in Ends(s, d, r.depth)
    BY <2>1, RowsAreEnds DEF TransitiveImpact
  <2>3. r.depth \in Nat /\ Opposite(d) \in Directions
    BY <2>2, Constant DEF Opposite, Directions
  <2>4. s \in Ends(t, Opposite(d), r.depth)
    BY <2>2, <2>3, TurnedRound
  <2>5. t \in Services
    <3>1. PICK p \in Chain(s, d, r.depth) : p[r.depth] = t
      BY <2>2 DEF Ends
    <3>2. r.depth \in 0 .. r.depth
      BY <2>3
    <3> QED
      BY <2>3, <3>1, <3>2, Prefix
  <2>6. Distance(t, s, Opposite(d)) # 0
    BY <2>2, <2>3, <2>4, <2>5, DistanceIs
  <2>7. [id |-> s, depth |-> Distance(t, s, Opposite(d))]
          \in TransitiveImpact(t, Opposite(d))
    BY <2>3, <2>5, <2>6, ImpactRows
  <2> QED
    BY <2>7 DEF Found
<1>3. {FarEnd(c, d) : c \in DirectImpact(s, d)} \ {s}
        = {r.id : r \in {q \in rows : q.depth = 1}} \ {s}
  <2> DEFINE R == Rows(Walks(s, d, TRUE))
  <2>1. {FarEnd(c, d) : c \in DirectImpact(s, d)} = {r.id : r \in {q \in R : q.depth = 1}}
    BY FarEnds, FirstRows
  <2>2. \A r \in R : r.depth \in 1 .. MaxDepth
    BY RowsAreEnds
  <2>3. rows = {r \in R : \A q \in R : q.id = r.id => r.depth <= q.depth}
    BY DEF TransitiveImpact
  <2> HIDE DEF R, rows
  <2>4. \A r \in R : r.depth = 1 <=> r \in rows /\ r.depth = 1
    BY <2>2, <2>3
  <2>5. rows \subseteq R
    BY <2>3
  <2>6. {q \in R : q.depth = 1} = {q \in rows : q.depth = 1}
    BY <2>4, <2>5
  <2> QED
    BY <2>1, <2>6
<1> QED
  BY <1>1, <1>2, <1>3

LEMMA ToolHolds ==
  ASSUME IInv
  PROVE  ToolAgrees
<1> SUFFICES ASSUME NEW n \in {NameOf[i] : i \in Services}, NEW d \in Directions
             PROVE  LET reply == QueryImpact(n, d)
                        s     == Named(n)
                        LeastOf(t) == Min({r.depth : r \in {q \in reply.results : q.id = t}})
                    IN  /\ {r \in TransitiveImpact(s, d) : r.id # s}
                             = {[id |-> t, depth |-> LeastOf(t)] :
                                  t \in Found(reply.results) \ {s}}
                        /\ {r.service : r \in QueryDirect(n, d, <<>>)}
                             = {NameOf[r.id] : r \in {q \in reply.results : q.depth = 1}}
                        /\ (UNION {After(s, d, k) : k \in 1 .. Count})
                             \subseteq Found(reply.results) \cup {s} \/ reply.truncated
  BY DEF ToolAgrees
<1> DEFINE s == Named(n)
           R == QueryImpact(n, d).results
           LeastOf(t) == Min({r.depth : r \in {q \in R : q.id = t}})
<1>1. /\ R = Rows(Walks(s, d, FALSE))
      /\ QueryImpact(n, d).truncated = (\E r \in R : r.depth >= MaxDepth)
  BY DEF QueryImpact
<1>2. s \in Services /\ NameOf[s] = n
  BY NamedIs
<1>3. \A r \in R : r = [id |-> r.id, depth |-> r.depth] /\ r.depth \in 1 .. MaxDepth
                    /\ r.id \in Ends(s, d, r.depth)
  <2>1. \A r \in Rows(Walks(s, d, FALSE)) :
          r = [id |-> r.id, depth |-> r.depth] /\ r.depth \in 1 .. MaxDepth
            /\ r.id \in Ends(s, d, r.depth)
    BY <1>2, RowsAreEnds
  <2> HIDE DEF R
  <2> QED
    BY <1>1, <2>1
<1>4. {r \in TransitiveImpact(s, d) : r.id # s}
        = {[id |-> t, depth |-> LeastOf(t)] : t \in Found(R) \ {s}}
  <2> DEFINE Dist(t) == Distance(s, t, d)
             Row(t) == [id |-> t, depth |-> Dist(t)]
             T == TransitiveImpact(s, d)
  <2>1. ASSUME NEW t, t # s
        PROVE  /\ Dist(t) \in Nat /\ (Dist(t) # 0 => Row(t) \in R)
               /\ \A r \in R : r.id = t => Dist(t) # 0 /\ Dist(t) <= r.depth
               /\ \A r \in T : r.id = t => Dist(t) # 0 /\ r = Row(t)
               /\ Dist(t) # 0 => Row(t) \in T
    <3> HIDE DEF R
    <3> QED
      BY <1>1, <1>2, <2>1, RowsAndDistance, ImpactRows
  <2>2. \A t : Row(t).id = t /\ Row(t).depth = Dist(t)
    OBVIOUS
  <2> HIDE DEF Dist, T, R, s
  <2>3. ASSUME NEW t \in Found(R) \ {s}
        PROVE  Dist(t) # 0 /\ LeastOf(t) = Dist(t)
    <3> DEFINE S == {r.depth : r \in {q \in R : q.id = t}}
    <3>1. PICK r \in R : r.id = t
      BY DEF Found
    <3>2. Dist(t) # 0 /\ Row(t) \in R
      BY <2>1, <3>1
    <3>3. Dist(t) \in S
      <4> HIDE DEF Row
      <4> QED
        BY <2>2, <3>2
    <3>4. \A k \in S : Dist(t) <= k /\ k \in Nat
      <4>1. \A q \in R : q.depth \in Nat
        BY <1>3, Constant
      <4>2. \A q \in R : q.id = t => Dist(t) <= q.depth
        BY <2>1
      <4> HIDE DEF Row
      <4> QED
        BY <4>1, <4>2
    <3> HIDE DEF S
    <3>7. S \in SUBSET Nat /\ S # {}
      BY <3>3, <3>4
    <3>5. Min(S) \in S /\ Min(S) <= Dist(t)
      BY <3>3, <3>7, MinOf
    <3>6. Min(S) = Dist(t)
      <4>1. Dist(t) <= Min(S) /\ Min(S) \in Nat
        BY <3>4, <3>5
      <4>2. Dist(t) \in Nat /\ Min(S) <= Dist(t)
        BY <2>1, <3>5
      <4> QED
        BY <4>1, <4>2
    <3> QED
      BY <3>2, <3>6 DEF S
  <2>4. {[id |-> t, depth |-> LeastOf(t)] : t \in Found(R) \ {s}}
          = {Row(t) : t \in Found(R) \ {s}}
    <3> HIDE DEF LeastOf
    <3> QED
      BY <2>3
  <2>5. \A t : t \in Found(R) \ {s} => Row(t) \in {r \in T : r.id # s}
    BY <2>1, <2>2, <2>3
  <2>6. ASSUME NEW r \in T, r.id # s
        PROVE  r.id \in Found(R) \ {s} /\ r = Row(r.id)
    <3>1. Row(r.id) \in R /\ r = Row(r.id)
      BY <2>1, <2>6
    <3> QED
      BY <2>2, <2>6, <3>1 DEF Found
  <2>7. {r \in T : r.id # s} = {Row(t) : t \in Found(R) \ {s}}
    <3> HIDE DEF Row
    <3> QED
      BY <2>5, <2>6
  <2> QED
    BY <2>4, <2>7 DEF T
<1>5. {r.service : r \in QueryDirect(n, d, <<>>)}
        = {NameOf[r.id] : r \in {q \in R : q.depth = 1}}
  <2>1. QueryDirect(n, d, <<>>) =
          {[service |-> NameOf[FarEnd(c, d)], connection |-> c] : c \in DirectImpact(s, d)}
    BY DEF QueryDirect
  <2>2. {r.service : r \in QueryDirect(n, d, <<>>)}
          = {NameOf[i] : i \in {FarEnd(c, d) : c \in DirectImpact(s, d)}}
    <3> DEFINE Row(c) == [service |-> NameOf[FarEnd(c, d)], connection |-> c]
    <3>1. \A c : Row(c).service = NameOf[FarEnd(c, d)]
      OBVIOUS
    <3>2. QueryDirect(n, d, <<>>) = {Row(c) : c \in DirectImpact(s, d)}
      BY <2>1
    <3> HIDE DEF Row, s
    <3> QED
      BY <3>1, <3>2
  <2>3. {FarEnd(c, d) : c \in DirectImpact(s, d)} = {r.id : r \in {q \in R : q.depth = 1}}
    <3>1. {FarEnd(c, d) : c \in DirectImpact(s, d)} = Neighbours(s, d)
      BY <1>2, FarEnds
    <3>2. Neighbours(s, d) = {r.id : r \in {q \in R : q.depth = 1}}
      BY <1>1, <1>2, FirstRows
    <3> QED
      BY <3>1, <3>2
  <2> DEFINE Z == {q \in R : q.depth = 1}
  <2>4. {NameOf[i] : i \in {r.id : r \in Z}} = {NameOf[r.id] : r \in Z}
    <3> HIDE DEF Z
    <3> QED
      OBVIOUS
  <2> HIDE DEF R, s
  <2> QED
    BY <2>2, <2>3, <2>4
<1>6. ASSUME NEW k \in 1 .. Count, NEW t \in After(s, d, k), t \notin Found(R) \cup {s}
      PROVE  \E r \in R : r.depth >= MaxDepth
  <2> HIDE DEF s, R
  <2>1. k \in Nat /\ t \in Ends(s, d, k) /\ t # s
    <3>1. k \in Nat
      BY Constant
    <3>2. After(s, d, k) = Ends(s, d, k)
      BY <1>2, <3>1, AfterIsEnds
    <3> QED
      BY <1>6, <3>1, <3>2
  <2>2. PICK m \in 0 .. k : First(s, d, t, m)
    BY <2>1, FirstExists
  <2>3. PICK p \in Chain(s, d, m) : p[m] = t
    BY <2>2 DEF First, Ends
  <2>4. m \in Nat /\ m # 0
    <3>1. m = 0 => t \in {s}
      BY <1>2, <2>2, EndsZero DEF First
    <3>2. m \in Nat
      BY <2>1, <2>2
    <3> QED
      BY <2>1, <3>1, <3>2
  <2>5. ~(m <= MaxDepth)
    <3>1. SUFFICES ASSUME m <= MaxDepth PROVE FALSE
      OBVIOUS
    <3>2. m \in 1 .. MaxDepth /\ m <= m
      BY <2>4, <3>1, Constant
    <3>3. [id |-> p[m], depth |-> m] \in R
      BY <1>2, <2>2, <2>3, <2>4, <3>2, <1>1, ShortestAreRows
    <3>4. t \in Found(R)
      <4>1. [id |-> t, depth |-> m].id = t
        OBVIOUS
      <4> QED
        BY <2>3, <3>3, <4>1, Zenon DEF Found
    <3> QED
      BY <1>6, <3>4
  <2>6. MaxDepth \in 1 .. MaxDepth /\ MaxDepth <= m /\ MaxDepth >= MaxDepth
    BY <2>4, <2>5, Constant
  <2>7. [id |-> p[MaxDepth], depth |-> MaxDepth] \in R
    BY <1>2, <2>2, <2>3, <2>4, <2>6, <1>1, ShortestAreRows
  <2> QED
    BY <2>6, <2>7
<1> HIDE DEF R, s
<1>7. (UNION {After(s, d, k) : k \in 1 .. Count}) \subseteq Found(R) \cup {s}
        \/ \E r \in R : r.depth >= MaxDepth
  <2>1. SUFFICES ASSUME ~(\E r \in R : r.depth >= MaxDepth),
                        NEW k \in 1 .. Count, NEW t \in After(s, d, k)
                 PROVE  t \in Found(R) \cup {s}
    OBVIOUS
  <2> QED
    BY <1>6, <2>1
<1> QED
  BY <1>1, <1>4, <1>5, <1>7 DEF s, R

-----------------------------------------------------------------------------
(* The subgraph.                                                           *)

LEMMA TraversalIs ==
  ASSUME IInv, NEW s \in Services, NEW d \in Directions, NEW n \in Nat \ {0}
  PROVE  Traversal(s, d, n) = UNION {Ends(s, d, k) : k \in 1 .. n}
<1> DEFINE X == SUBSET Services
           a == Neighbours(s, d)
           Step(Z) == Z \cup UNION {Neighbours(i, d) : i \in Z}
           G == [Z \in X |-> Step(Z)]
           Is(g) == g = [k \in 1 .. n |-> IF k = 1 THEN a ELSE Step(g[k - 1])]
           f == CHOOSE g : Is(g)
           U(k) == UNION {Ends(s, d, j) : j \in 1 .. k}
<1>1. Traversal(s, d, n) = f[n]
  BY DEF Traversal
<1>2. a \in X /\ G \in [X -> X]
  BY NeighboursAre
<1>3. PICK g : Follows(g, 1, n, X, a, G)
  <2>1. 1 \in Nat /\ n \in Nat
    OBVIOUS
  <2> HIDE DEF a, X, G
  <2> QED
    BY <1>2, <2>1, Recursion
<1> HIDE DEF a, X, Step
<1>11. /\ g \in [1 .. n -> X]
       /\ \A k \in 1 .. n : g[k] = IF k = 1 THEN a ELSE G[g[k - 1]]
  <2> HIDE DEF G
  <2> QED
    BY <1>3 DEF Follows
<1>4. \A k \in 1 .. n : k # 1 => G[g[k - 1]] = Step(g[k - 1])
  <2> TAKE k \in 1 .. n
  <2> HAVE k # 1
  <2>1. g[k - 1] \in X
    BY <1>11
  <2> QED
    BY <2>1
<1>5. Is(g)
  <2> HIDE DEF G
  <2> QED
    BY <1>4, <1>11
<1>6. Is(f)
  BY <1>5
<1> HIDE DEF f
<1>7. f[1] = a /\ \A k \in 2 .. n : f[k] = Step(f[k - 1])
  BY <1>6
<1> DEFINE S == {k \in Nat : f[k] = U(k)}
<1>8. 1 \in S
  <2>1. Ends(s, d, 0 + 1) = UNION {Neighbours(i, d) : i \in Ends(s, d, 0)}
    BY EndsNext
  <2>2. Ends(s, d, 1) = a
    <3>1. Ends(s, d, 1) = UNION {Neighbours(i, d) : i \in {s}}
      BY <2>1, EndsZero
    <3>2. UNION {Neighbours(i, d) : i \in {s}} = Neighbours(s, d)
      OBVIOUS
    <3> QED
      BY <3>1, <3>2 DEF a
  <2>3. U(1) = Ends(s, d, 1)
    OBVIOUS
  <2> HIDE DEF U
  <2> QED
    BY <1>7, <2>2, <2>3
<1>9. ASSUME NEW k \in 1 + 1 .. n, k - 1 \in S
      PROVE  k \in S
  <2>1. k \in 2 .. n /\ k \in Nat /\ k - 1 \in Nat /\ (k - 1) + 1 = k
    OBVIOUS
  <2>2. f[k] = U(k - 1) \cup UNION {Neighbours(i, d) : i \in U(k - 1)}
    BY <1>7, <1>9, <2>1 DEF Step
  <2>3. \A j \in 1 .. k - 1 : Ends(s, d, j + 1) = UNION {Neighbours(i, d) : i \in Ends(s, d, j)}
    BY EndsNext
  <2>4. ASSUME NEW x \in U(k)
        PROVE  x \in f[k]
    <3>1. PICK j \in 1 .. k : x \in Ends(s, d, j)
      OBVIOUS
    <3>2. CASE j = k
      <4>1. k - 1 \in 1 .. k - 1
        BY <2>1
      <4>2. x \in UNION {Neighbours(i, d) : i \in Ends(s, d, k - 1)}
        BY <2>1, <2>3, <3>1, <3>2, <4>1
      <4> QED
        BY <2>2, <4>1, <4>2
    <3>3. CASE j # k
      <4>1. j \in 1 .. k - 1
        BY <2>1, <3>3
      <4> QED
        BY <2>2, <3>1, <4>1
    <3> QED
      BY <3>2, <3>3
  <2>5. ASSUME NEW x \in f[k]
        PROVE  x \in U(k)
    <3>1. CASE x \in U(k - 1)
      <4>1. PICK j \in 1 .. k - 1 : x \in Ends(s, d, j)
        BY <3>1
      <4>2. j \in 1 .. k
        BY <2>1
      <4> QED
        BY <4>1, <4>2
    <3>2. CASE x \notin U(k - 1)
      <4>1. PICK j \in 1 .. k - 1 : \E i \in Ends(s, d, j) : x \in Neighbours(i, d)
        BY <2>2, <2>5, <3>2
      <4>2. j + 1 \in 1 .. k /\ x \in Ends(s, d, j + 1)
        BY <2>1, <2>3, <4>1
      <4> QED
        BY <4>2
    <3> QED
      BY <3>1, <3>2
  <2>6. f[k] = U(k)
    BY <2>4, <2>5
  <2> QED
    BY <2>1, <2>6
<1>10. n \in S
  <2>1. 1 .. n \subseteq S
    <3> HIDE DEF S
    <3> QED
      BY <1>8, <1>9, Induct
  <2> QED
    BY <2>1
<1> QED
  BY <1>1, <1>10

(* A shortest walk is shorter than there are services. *)
LEMMA ShortestIsShort ==
  ASSUME NEW s, NEW d, NEW n \in Nat, NEW p \in Chain(s, d, n), First(s, d, p[n], n)
  PROVE  n < Count
<1> SUFFICES ASSUME ~(n < Count) PROVE FALSE
  OBVIOUS
<1>1. p \in [0 .. n -> Services] /\ Count \in Nat
  BY Constant DEF Chain
<1>2. /\ IsFiniteSet(0 .. n) /\ Cardinality(0 .. n) = n + 1
      /\ IsFiniteSet(Services) /\ Cardinality(Services) = Count
  BY <1>1, FS_Interval DEF Services
<1>3. Cardinality(Services) < Cardinality(0 .. n)
  BY <1>1, <1>2
<1>4. PICK i, j \in 0 .. n : i # j /\ p[i] = p[j]
  BY <1>1, <1>2, <1>3, FS_PigeonHole
<1>5. i < j \/ j < i
  BY <1>4
<1> QED
  BY <1>4, <1>5, ShortestIsSimple

LEMMA SubgraphHolds ==
  ASSUME IInv
  PROVE  SubgraphLinked
<1> SUFFICES ASSUME NEW n \in {NameOf[i] : i \in Services},
                    NEW depth \in 1 .. GraphDepth + 1, NEW d \in Directions
             PROVE  LET g == QueryGraph(n, depth, {d})
                        names == {NameOf[i] : i \in g.nodes} \cup {n}
                        Out(x) == IF d = "downstream"
                                  THEN {e[2] : e \in {k \in g.edges : k[1] = x}}
                                  ELSE {e[1] : e \in {k \in g.edges : k[2] = x}}
                        grown[k \in 0 .. Count] ==
                          IF k = 0 THEN {n}
                          ELSE grown[k - 1] \cup UNION {Out(x) : x \in grown[k - 1]}
                    IN  /\ \A e \in g.edges : e[1] \in names /\ e[2] \in names
                        /\ names \subseteq grown[Count]
  BY DEF SubgraphLinked
<1> DEFINE root == Named(n)
           m == Min({depth, GraphDepth})
           reached == Traversal(root, d, m)
           ids == {root} \cup reached
           edges == QueryGraph(n, depth, {d}).edges
           nodes == QueryGraph(n, depth, {d}).nodes
           names == {NameOf[i] : i \in nodes} \cup {n}
           Out(x) == IF d = "downstream"
                     THEN {e[2] : e \in {k \in edges : k[1] = x}}
                     ELSE {e[1] : e \in {k \in edges : k[2] = x}}
           Step(Z) == Z \cup UNION {Out(x) : x \in Z}
           Is(h) == h = [k \in 0 .. Count |-> IF k = 0 THEN {n} ELSE Step(h[k - 1])]
           grown == CHOOSE h : Is(h)
<1>1. nodes = reached \ {root} /\ edges = EdgesAmong(ids)
  <2> DEFINE N(e) == Traversal(root, e, m)
             E(e) == EdgesAmong({root} \cup N(e))
  <2>1. QueryGraph(n, depth, {d}) = [nodes |-> (UNION {N(e) : e \in {d}}) \ {root},
                                     edges |-> UNION {E(e) : e \in {d}}]
    BY DEF QueryGraph
  <2>2. /\ nodes = (UNION {N(e) : e \in {d}}) \ {root}
        /\ edges = UNION {E(e) : e \in {d}}
    <3> HIDE DEF N, E, root
    <3> QED
      BY <2>1, SMTT(30)
  <2>3. nodes = N(d) \ {root} /\ edges = E(d)
    <3> HIDE DEF N, E, root, nodes, edges
    <3> QED
      BY <2>2
  <2>4. N(d) = reached /\ E(d) = EdgesAmong(ids)
    OBVIOUS
  <2> HIDE DEF N, E, root, m, reached, ids, nodes, edges
  <2> QED
    BY <2>3, <2>4
<1>2. root \in Services /\ NameOf[root] = n
  BY NamedIs
<1>3. m \in Nat \ {0}
  <2>1. {depth, GraphDepth} \in SUBSET Nat /\ {depth, GraphDepth} # {}
        /\ depth # 0 /\ GraphDepth # 0
    BY Constant
  <2>2. m \in {depth, GraphDepth}
    BY <2>1, MinOf
  <2> QED
    BY <2>1, <2>2
<1> HIDE DEF root, m, edges, nodes
<1>4. reached = UNION {Ends(root, d, k) : k \in 1 .. m}
  BY <1>2, <1>3, TraversalIs
<1>5. reached \subseteq Services /\ ids \subseteq Services
  <2>1. ASSUME NEW k \in 1 .. m, NEW x \in Ends(root, d, k)
        PROVE  x \in Services
    <3>1. PICK p \in Chain(root, d, k) : p[k] = x
      BY DEF Ends
    <3>2. k \in Nat /\ k \in 0 .. k
      BY <1>3
    <3> QED
      BY <3>1, <3>2, Prefix
  <2> HIDE DEF reached
  <2> QED
    BY <1>2, <1>4, <2>1
<1> HIDE DEF reached
<1>6. names = {NameOf[i] : i \in ids}
  BY <1>1, <1>2
<1>7. \A e \in edges : /\ e[1] \in names /\ e[2] \in names
                       /\ e[1] \in Terms /\ e[2] \in Terms
  <2>1. \A i \in ids : NameOf[i] \in Terms
    BY <1>5, Constant
  <2> HIDE DEF names, ids
  <2> QED
    BY <1>1, <1>6, <2>1 DEF EdgesAmong
<1>8. ASSUME NEW i \in ids, NEW j \in ids, j \in Neighbours(i, d)
      PROVE  NameOf[j] \in Out(NameOf[i])
  <2> HIDE DEF ids
  <2>1. CASE d = "downstream"
    <3>1. PICK c \in connections : c.source = i /\ c.target = j
      BY <1>8, <2>1 DEF Neighbours
    <3>2. <<NameOf[i], NameOf[j]>> \in edges
      BY <1>1, <1>8, <3>1 DEF EdgesAmong
    <3> QED
      BY <2>1, <3>2
  <2>2. CASE d # "downstream"
    <3>1. PICK c \in connections : c.target = i /\ c.source = j
      BY <1>8, <2>2 DEF Neighbours
    <3>2. <<NameOf[j], NameOf[i]>> \in edges
      BY <1>1, <1>8, <3>1 DEF EdgesAmong
    <3> QED
      BY <2>2, <3>2
  <2> QED
    BY <2>1, <2>2
<1> HIDE DEF ids, names
<1>9. \E h : Is(h)
  <2> DEFINE X == SUBSET Terms
             G == [Z \in X |-> Step(Z)]
             a == {n}
  <2>1. a \in X
    BY <1>2, Constant
  <2>2. \A x : Out(x) \subseteq Terms
    BY <1>7
  <2> HIDE DEF Out
  <2>3. G \in [X -> X]
    BY <2>2
  <2>4. Count \in Nat
    BY Constant
  <2>5. PICK h : Follows(h, 0, Count, X, a, G)
    <3>1. 0 \in Nat
      OBVIOUS
    <3> HIDE DEF X, G, a
    <3> QED
      BY <2>1, <2>3, <2>4, <3>1, Recursion
  <2> HIDE DEF X, Step
  <2>8. /\ h \in [0 .. Count -> X]
        /\ \A k \in 0 .. Count : h[k] = IF k = 0 THEN a ELSE G[h[k - 1]]
    <3> HIDE DEF G, a
    <3> QED
      BY <2>5 DEF Follows
  <2>6. \A k \in 0 .. Count : k # 0 => G[h[k - 1]] = Step(h[k - 1])
    <3> TAKE k \in 0 .. Count
    <3> HAVE k # 0
    <3>1. h[k - 1] \in X
      BY <2>4, <2>8
    <3> QED
      BY <3>1
  <2>7. Is(h)
    <3> HIDE DEF G
    <3> QED
      BY <2>6, <2>8
  <2> QED
    BY <2>7
<1>10. Is(grown)
  BY <1>9
<1> HIDE DEF grown
<1>11. /\ Count \in Nat /\ grown[0] = {n}
       /\ \A k \in 1 .. Count : grown[k] = Step(grown[k - 1])
  <2>1. Count \in Nat
    BY Constant
  <2>2. 0 \in 0 .. Count /\ \A k \in 1 .. Count : k \in 0 .. Count /\ k # 0
    BY <2>1
  <2> HIDE DEF Step
  <2> QED
    BY <1>10, <2>1, <2>2
<1>12. ASSUME NEW k \in 0 .. Count
       PROVE  grown[k] \subseteq grown[Count]
  <2> DEFINE S == {j \in Nat : grown[k] \subseteq grown[j]}
  <2>1. k \in S /\ k \in Nat
    BY <1>11
  <2>2. ASSUME NEW j \in k + 1 .. Count, j - 1 \in S
        PROVE  j \in S
    <3>1. j \in 1 .. Count /\ j \in Nat
      BY <1>11, <2>1
    <3>2. grown[j - 1] \subseteq grown[j]
      BY <1>11, <3>1
    <3> QED
      BY <2>2, <3>1, <3>2
  <2>3. Count \in S
    <3> HIDE DEF S
    <3>1. k .. Count \subseteq S
      BY <1>11, <2>1, <2>2, Induct
    <3> QED
      BY <1>11, <3>1
  <2> QED
    BY <2>3
<1>13. ASSUME NEW i \in reached, i # root
       PROVE  NameOf[i] \in grown[Count]
  <2>1. PICK l \in 1 .. m : i \in Ends(root, d, l)
    BY <1>4
  <2>2. l \in Nat /\ l <= m
    BY <1>3
  <2>3. PICK k \in 0 .. l : First(root, d, i, k)
    BY <2>1, <2>2, FirstExists
  <2>4. PICK p \in Chain(root, d, k) : p[k] = i
    BY <2>3 DEF First, Ends
  <2>5. k \in Nat /\ k <= m /\ k < Count
    BY <1>3, <2>2, <2>3, <2>4, ShortestIsShort
  <2>6. /\ p[0] = root
        /\ \A j \in 0 .. k - 1 : p[j + 1] \in Neighbours(p[j], d)
    BY DEF Chain
  <2>7. ASSUME NEW j \in 0 .. k
        PROVE  p[j] \in ids
    <3>1. CASE j = 0
      BY <2>6, <3>1 DEF ids
    <3>2. CASE j # 0
      <4>1. j \in 1 .. m
        BY <1>3, <2>5, <3>2
      <4>2. p[j] \in Ends(root, d, j)
        BY <2>5, Prefix
      <4> QED
        BY <1>4, <4>1, <4>2 DEF ids
    <3> QED
      BY <3>1, <3>2
  <2> DEFINE S == {j \in Nat : NameOf[p[j]] \in grown[j]}
  <2>8. 0 \in S
    BY <1>2, <1>11, <2>6
  <2>9. ASSUME NEW j \in 0 + 1 .. k, j - 1 \in S
        PROVE  j \in S
    <3>1. /\ j \in Nat /\ j \in 1 .. Count /\ j - 1 \in 0 .. k - 1 /\ j \in 0 .. k
          /\ j - 1 \in 0 .. k /\ (j - 1) + 1 = j
      BY <1>11, <2>5
    <3>2. NameOf[p[j]] \in Out(NameOf[p[j - 1]])
      BY <1>8, <2>6, <2>7, <3>1
    <3> HIDE DEF Out
    <3>3. NameOf[p[j - 1]] \in grown[j - 1]
      BY <2>9
    <3>4. NameOf[p[j]] \in Step(grown[j - 1])
      BY <3>2, <3>3
    <3> HIDE DEF Step
    <3> QED
      BY <1>11, <3>1, <3>4
  <2>10. NameOf[i] \in grown[k]
    <3>1. 0 .. k \subseteq S
      <4> HIDE DEF S
      <4> QED
        BY <2>5, <2>8, <2>9, Induct
    <3>2. k \in S
      BY <2>5, <3>1
    <3> QED
      BY <2>4, <3>2
  <2>11. k \in 0 .. Count
    BY <1>11, <2>5
  <2> QED
    BY <1>12, <2>10, <2>11
<1>14. names \subseteq grown[Count]
  <2>1. n \in grown[Count]
    <3>1. 0 \in 0 .. Count
      BY <1>11
    <3> QED
      BY <1>11, <1>12, <3>1
  <2>2. \A i \in nodes : NameOf[i] \in grown[Count]
    BY <1>1, <1>13
  <2> QED
    BY <2>1, <2>2 DEF names
<1> QED
  BY <1>7, <1>14, Zenon DEF names, grown, edges, nodes

(* The queries of the worker and of the tools, whose paths are delimited   *)
(* differently, agree with reachability in any graph and with any caps:    *)
(* each service at its distance, symmetric in the direction, marked as cut *)
(* off when something is missing; and a subgraph hangs together.           *)
THEOREM TraversalsAreExact == Spec => []TraversalsExact
<1>1. IInv => TraversalsExact
  BY ImpactHolds, ToolHolds, SubgraphHolds DEF TraversalsExact
<1> QED
  BY <1>1, Invariant, PTL

=============================================================================
