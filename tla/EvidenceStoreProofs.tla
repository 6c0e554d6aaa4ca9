-------------------------- MODULE EvidenceStoreProofs --------------------------
(***************************************************************************)
(* What holds of the two databases for every number of processes, every    *)
(* set of revisions a file may have been left at and every set of          *)
(* revisions the operator migrates to: no statement of a migration or of   *)
(* the startup script raises, both databases come to the same tables, keys *)
(* and columns, and a registry opens on PostgreSQL only when they are      *)
(* there.                                                                  *)
(*                                                                         *)
(* Scripts are long concatenations of short lists; what a script makes and *)
(* builds on is put together from what its lists do.  Each object has an   *)
(* age, the revision it came with, so that what a revision makes is new to *)
(* the schema before it and is all that the way back drops.                *)
(***************************************************************************)
EXTENDS EvidenceStore, WellFoundedInduction, SequenceTheorems, TLAPS

-----------------------------------------------------------------------------
(* Scripts as sequences of statements. *)

\* A set that has 0 and with each number the next has all numbers.
LEMMA Induction ==
    ASSUME NEW S, 0 \in S, \A k \in Nat \ {0} : k - 1 \in S => k \in S
    PROVE  \A k \in Nat : k \in S
<1> SUFFICES ASSUME NEW k \in Nat, k \notin S PROVE FALSE
  OBVIOUS
<1>1. PICK b \in Nat \ S : \A y \in Nat \ S : <<y, b>> \notin OpToRel(<, Nat)
  <2>1. Nat \ S \subseteq Nat /\ Nat \ S # {}
    OBVIOUS
  <2> QED
    BY <2>1, NatLessThanWellFounded, WFMin
<1>2. b # 0 /\ b - 1 \in Nat /\ b - 1 < b
  OBVIOUS
<1> QED
  BY <1>1, <1>2 DEF OpToRel

\* seq is a sequence of the statements in S.
Enumerates(seq, S) == seq \in Seq(S) /\ ToSet(seq) = S

\* A function on 1..n is a sequence of its values.
LEMMA EnumeratesAll ==
    ASSUME NEW n \in Nat, NEW f, f = [i \in 1..n |-> f[i]]
    PROVE  Enumerates(f, {f[i] : i \in 1..n}) /\ Len(f) = n
<1> DEFINE S == {f[i] : i \in 1..n}
<1>1. f \in [1..n -> S]
  OBVIOUS
<1>2. f \in Seq(S)
  <2> HIDE DEF S
  <2> QED
    BY <1>1, SeqDef
<1>3. Len(f) = n /\ DOMAIN f = 1..n
  <2>1. DOMAIN f = 1..n
    OBVIOUS
  <2> HIDE DEF S
  <2> QED
    BY <2>1, <1>2, LenProperties
<1> QED
  BY <1>2, <1>3 DEF Enumerates, ToSet

\* One sequence after another.
LEMMA EnumeratesConcat ==
    ASSUME NEW s, NEW S, Enumerates(s, S), NEW t, NEW T, Enumerates(t, T)
    PROVE  /\ Enumerates(s \o t, S \union T)
           /\ Len(s) \in Nat /\ Len(t) \in Nat /\ Len(s \o t) = Len(s) + Len(t)
           /\ \A i \in 1..(Len(s) + Len(t)) : (s \o t)[i] = IF i <= Len(s) THEN s[i] ELSE t[i - Len(s)]
<1> DEFINE U == S \union T
<1>1. s \in Seq(U) /\ t \in Seq(U)
  <2>1. S \subseteq U /\ T \subseteq U
    OBVIOUS
  <2>2. s \in Seq(S) /\ t \in Seq(T)
    BY DEF Enumerates
  <2> HIDE DEF U
  <2> QED
    BY <2>1, <2>2, SeqMonotonic
<1>2. /\ s \o t \in Seq(U) /\ Len(s \o t) = Len(s) + Len(t)
      /\ \A i \in 1..(Len(s) + Len(t)) : (s \o t)[i] = IF i <= Len(s) THEN s[i] ELSE t[i - Len(s)]
  <2> HIDE DEF U
  <2> QED
    BY <1>1, ConcatProperties
<1>3. /\ Len(s) \in Nat /\ Len(t) \in Nat /\ DOMAIN s = 1..Len(s) /\ DOMAIN t = 1..Len(t)
      /\ DOMAIN (s \o t) = 1..(Len(s) + Len(t))
  <2> HIDE DEF U
  <2> QED
    BY <1>1, <1>2, LenProperties
<1>4. ToSet(s \o t) = U
  <2>1. ToSet(s) = S /\ ToSet(t) = T
    BY DEF Enumerates
  <2>2. ASSUME NEW x \in S PROVE x \in ToSet(s \o t)
    <3>1. PICK i \in 1..Len(s) : x = s[i]
      BY <2>1, <2>2, <1>3 DEF ToSet
    <3>2. i \in 1..(Len(s) + Len(t)) /\ i <= Len(s)
      BY <1>3
    <3> QED
      BY <3>1, <3>2, <1>2, <1>3 DEF ToSet
  <2>3. ASSUME NEW x \in T PROVE x \in ToSet(s \o t)
    <3>1. PICK i \in 1..Len(t) : x = t[i]
      BY <2>1, <2>3, <1>3 DEF ToSet
    <3>2. Len(s) + i \in 1..(Len(s) + Len(t)) /\ ~(Len(s) + i <= Len(s)) /\ (Len(s) + i) - Len(s) = i
      BY <1>3
    <3>3. (s \o t)[Len(s) + i] = x
      BY <3>1, <3>2, <1>2
    <3> QED
      BY <3>2, <3>3, <1>3 DEF ToSet
  <2>4. ASSUME NEW x \in ToSet(s \o t) PROVE x \in U
    <3>1. PICK i \in 1..(Len(s) + Len(t)) : x = (s \o t)[i]
      BY <2>4, <1>3 DEF ToSet
    <3>2. CASE i <= Len(s)
      <4>1. i \in 1..Len(s) /\ x = s[i]
        BY <3>1, <3>2, <1>2, <1>3
      <4> QED
        BY <4>1, <2>1, <1>3 DEF ToSet
    <3>3. CASE ~(i <= Len(s))
      <4>1. i - Len(s) \in 1..Len(t) /\ x = t[i - Len(s)]
        BY <3>1, <3>3, <1>2, <1>3
      <4> QED
        BY <4>1, <2>1, <1>3 DEF ToSet
    <3> QED
      BY <3>2, <3>3
  <2> QED
    BY <2>2, <2>3, <2>4
<1> QED
  BY <1>2, <1>3, <1>4 DEF Enumerates

\* What the statements in S make, and what they make with what goes with it.
MakesOf(S) == {x.makes : x \in S}
ObjectsOf(S) == UNION {{x.makes} \union x.with : x \in S}

\* Each statement builds on what is in base or was made before it.
Covered(seq, base) ==
    \A i \in DOMAIN seq : seq[i].needs \subseteq base \union {seq[j].makes : j \in 1..(i - 1)}

\* A script covered from a base is covered from a larger one.
LEMMA CoveredMore ==
    ASSUME NEW seq, NEW base, Covered(seq, base), NEW more, base \subseteq more
    PROVE  Covered(seq, more)
BY DEF Covered

\* A second script may build on what the first makes.
LEMMA CoveredConcat ==
    ASSUME NEW s, NEW S, Enumerates(s, S), NEW t, NEW T, Enumerates(t, T), NEW base,
           Covered(s, base), Covered(t, base \union MakesOf(S))
    PROVE  Covered(s \o t, base)
<1>1. /\ Len(s) \in Nat /\ Len(t) \in Nat /\ Len(s \o t) = Len(s) + Len(t)
      /\ \A i \in 1..(Len(s) + Len(t)) : (s \o t)[i] = IF i <= Len(s) THEN s[i] ELSE t[i - Len(s)]
  BY EnumeratesConcat
<1>2. DOMAIN s = 1..Len(s) /\ DOMAIN t = 1..Len(t) /\ DOMAIN (s \o t) = 1..(Len(s) + Len(t))
  <2>1. Enumerates(s \o t, S \union T)
    BY EnumeratesConcat
  <2> QED
    BY <2>1, <1>1, LenProperties DEF Enumerates
<1>3. MakesOf(S) = {s[j].makes : j \in 1..Len(s)}
  BY <1>2 DEF MakesOf, Enumerates, ToSet
<1> SUFFICES ASSUME NEW i \in 1..(Len(s) + Len(t)), NEW o \in (s \o t)[i].needs, o \notin base
             PROVE  \E j \in 1..(i - 1) : o = (s \o t)[j].makes
  BY <1>2 DEF Covered
<1>4. CASE i <= Len(s)
  <2>1. i \in 1..Len(s) /\ (s \o t)[i] = s[i]
    BY <1>1, <1>4
  <2>2. PICK j \in 1..(i - 1) : o = s[j].makes
    BY <2>1, <1>2 DEF Covered
  <2>3. j \in 1..(Len(s) + Len(t)) /\ j <= Len(s)
    BY <1>1, <1>4
  <2> QED
    BY <2>2, <2>3, <1>1
<1>5. CASE ~(i <= Len(s))
  <2>1. i - Len(s) \in 1..Len(t) /\ (s \o t)[i] = t[i - Len(s)]
    BY <1>1, <1>5
  <2>2. o \in MakesOf(S) \/ \E j \in 1..(i - Len(s) - 1) : o = t[j].makes
    BY <2>1, <1>2 DEF Covered
  <2>3. CASE o \in MakesOf(S)
    <3>1. PICK j \in 1..Len(s) : o = s[j].makes
      BY <2>3, <1>3
    <3>2. j \in 1..(Len(s) + Len(t)) /\ j <= Len(s) /\ j \in 1..(i - 1)
      BY <1>1, <1>5
    <3> QED
      BY <3>1, <3>2, <1>1
  <2>4. ASSUME NEW j \in 1..(i - Len(s) - 1), o = t[j].makes
        PROVE  \E m \in 1..(i - 1) : o = (s \o t)[m].makes
    <3>1. /\ Len(s) + j \in 1..(Len(s) + Len(t)) /\ ~(Len(s) + j <= Len(s))
          /\ (Len(s) + j) - Len(s) = j /\ Len(s) + j \in 1..(i - 1)
      BY <1>1, <2>1
    <3>2. (s \o t)[Len(s) + j] = t[j]
      BY <3>1, <1>1
    <3> QED
      BY <3>1, <3>2, <2>4
  <2> QED
    BY <2>2, <2>3, <2>4
<1> QED
  BY <1>4, <1>5

\* The statements of Tables, Keyed and Columns.
Created(N) == {Create(t, {}) : t \in N}
CreatedKeyed(N) == {Create(t, {Key(t)}) : t \in N}
Added(t, N) == {[makes |-> Column(t, c), with |-> {}, needs |-> {Table(t)}] : c \in N}

\* A function of the places of a sequence.
LEMMA ImageSeq ==
    ASSUME NEW s, NEW N, Enumerates(s, N), NEW f, f = [i \in DOMAIN s |-> f[i]]
    PROVE  Enumerates(f, {f[i] : i \in DOMAIN s}) /\ DOMAIN f = DOMAIN s
<1>1. Len(s) \in Nat /\ DOMAIN s = 1..Len(s)
  BY LenProperties DEF Enumerates
<1>2. f = [i \in 1..Len(s) |-> f[i]]
  BY <1>1
<1> QED
  BY <1>1, <1>2, EnumeratesAll

\* Tables makes one statement of each name, which builds on nothing.
LEMMA TablesSeq ==
    ASSUME NEW ts, NEW N, Enumerates(ts, N)
    PROVE  Enumerates(Tables(ts), Created(N)) /\ \A base : Covered(Tables(ts), base)
<1> DEFINE f == Tables(ts)
<1>1. f = [i \in DOMAIN ts |-> f[i]] /\ \A i \in DOMAIN ts : f[i] = Create(ts[i], {})
  BY DEF Tables
<1>2. Enumerates(f, {f[i] : i \in DOMAIN ts}) /\ DOMAIN f = DOMAIN ts
  <2> HIDE DEF f
  <2> QED
    BY <1>1, ImageSeq
<1>3. {f[i] : i \in DOMAIN ts} = Created(N)
  <2>1. N = {ts[i] : i \in DOMAIN ts}
    BY DEF Enumerates, ToSet
  <2> HIDE DEF f
  <2> QED
    BY <1>1, <2>1 DEF Created
<1>4. \A i \in DOMAIN f : f[i].needs = {}
  <2> HIDE DEF f
  <2> QED
    BY <1>1, <1>2 DEF Create
<1> QED
  BY <1>2, <1>3, <1>4 DEF Covered

\* So does Keyed, with the key of each.
LEMMA KeyedSeq ==
    ASSUME NEW ts, NEW N, Enumerates(ts, N)
    PROVE  Enumerates(Keyed(ts), CreatedKeyed(N)) /\ \A base : Covered(Keyed(ts), base)
<1> DEFINE f == Keyed(ts)
<1>1. f = [i \in DOMAIN ts |-> f[i]] /\ \A i \in DOMAIN ts : f[i] = Create(ts[i], {Key(ts[i])})
  BY DEF Keyed
<1>2. Enumerates(f, {f[i] : i \in DOMAIN ts}) /\ DOMAIN f = DOMAIN ts
  <2> HIDE DEF f
  <2> QED
    BY <1>1, ImageSeq
<1>3. {f[i] : i \in DOMAIN ts} = CreatedKeyed(N)
  <2>1. N = {ts[i] : i \in DOMAIN ts}
    BY DEF Enumerates, ToSet
  <2> HIDE DEF f
  <2> QED
    BY <1>1, <2>1 DEF CreatedKeyed
<1>4. \A i \in DOMAIN f : f[i].needs = {}
  <2> HIDE DEF f
  <2> QED
    BY <1>1, <1>2 DEF Create
<1> QED
  BY <1>2, <1>3, <1>4 DEF Covered

\* Columns makes one statement of each name, which builds on the table.
LEMMA ColumnsSeq ==
    ASSUME NEW t, NEW cs, NEW N, Enumerates(cs, N)
    PROVE  Enumerates(Columns(t, cs), Added(t, N)) /\ \A base : Table(t) \in base =>
             Covered(Columns(t, cs), base)
<1> DEFINE f == Columns(t, cs)
<1>1. /\ f = [i \in DOMAIN cs |-> f[i]]
      /\ \A i \in DOMAIN cs : f[i] = [makes |-> Column(t, cs[i]), with |-> {}, needs |-> {Table(t)}]
  BY DEF Columns
<1>2. Enumerates(f, {f[i] : i \in DOMAIN cs}) /\ DOMAIN f = DOMAIN cs
  <2> HIDE DEF f
  <2> QED
    BY <1>1, ImageSeq
<1>3. {f[i] : i \in DOMAIN cs} = Added(t, N)
  <2>1. N = {cs[i] : i \in DOMAIN cs}
    BY DEF Enumerates, ToSet
  <2> HIDE DEF f
  <2> QED
    BY <1>1, <2>1 DEF Added
<1>4. \A i \in DOMAIN f : f[i].needs = {Table(t)}
  <2> HIDE DEF f
  <2> QED
    BY <1>1, <1>2
<1> QED
  BY <1>2, <1>3, <1>4 DEF Covered

-----------------------------------------------------------------------------
(* Scripts. *)

\* The tables with a unique key beside the primary one.
KeyedTables == {"bars", "features", "candidate_signals", "labels", "active_models",
    "daily_reviews", "pipeline_build_windows", "model_evidence_cells", "candidate_score_audits",
    "model_calibration_audits", "research_cycles", "model_proposals", "model_decision_ledger",
    "scheduler_jobs", "scheduler_job_events", "provider_capability_checks", "ingestion_runs",
    "quote_snapshots", "data_freshness_reports"}

TablesOf(N) == {Table(t) : t \in N}
KeysOf(N) == {Key(t) : t \in N}
ColumnsOf(t, N) == {Column(t, c) : c \in N}

\* A keyed table comes with its key, the hypertable with nothing, and none with another table.
Proper(s) ==
    /\ s.makes = Hypertable => s.with = {}
    /\ \A t \in KeyedTables : Table(t) \notin s.with
    /\ \A t \in KeyedTables : s.makes = Table(t) => Key(t) \in s.with

\* A sequence of statements that makes M, with what comes along O, from base.
Script(seq, M, O, base) ==
    /\ Enumerates(seq, ToSet(seq)) /\ Covered(seq, base)
    /\ MakesOf(ToSet(seq)) = M /\ ObjectsOf(ToSet(seq)) = O
    /\ \A s \in ToSet(seq) : Proper(s)

\* One script after another.
LEMMA ScriptConcat ==
    ASSUME NEW s, NEW M, NEW O, NEW base, Script(s, M, O, base),
           NEW t, NEW N, NEW P, NEW more, Script(t, N, P, more), more \subseteq base \union M
    PROVE  Script(s \o t, M \union N, O \union P, base)
<1> DEFINE S == ToSet(s)
           T == ToSet(t)
<1>1. Enumerates(s, S) /\ Enumerates(t, T) /\ Covered(s, base) /\ Covered(t, base \union MakesOf(S))
  BY CoveredMore DEF Script
<1>2. Enumerates(s \o t, S \union T) /\ Covered(s \o t, base)
  <2> HIDE DEF S, T
  <2> QED
    BY <1>1, EnumeratesConcat, CoveredConcat
<1>3. ToSet(s \o t) = S \union T
  BY <1>2 DEF Enumerates
<1>4. MakesOf(S \union T) = MakesOf(S) \union MakesOf(T)
  BY DEF MakesOf
<1>5. ObjectsOf(S \union T) = ObjectsOf(S) \union ObjectsOf(T)
  BY DEF ObjectsOf
<1> QED
  BY <1>2, <1>3, <1>4, <1>5 DEF Script

\* The statements in S make M, and O with what comes along.
Accounts(S, M, O) ==
    /\ \A s \in S : s.makes \in M /\ s.makes \in O /\ s.with \subseteq O
    /\ \A m \in M : \E s \in S : m = s.makes
    /\ \A o \in O : \E s \in S : o = s.makes \/ o \in s.with

\* What statements that account for M and O come to.
LEMMA ObjectsAre ==
    ASSUME NEW S, NEW M, NEW O, Accounts(S, M, O)
    PROVE  MakesOf(S) = M /\ ObjectsOf(S) = O
BY DEF MakesOf, ObjectsOf, Accounts

\* What Tables makes, of names without a key.
LEMMA TablesScript ==
    ASSUME NEW ts, NEW N, Enumerates(ts, N), N \intersect KeyedTables = {}
    PROVE  Script(Tables(ts), TablesOf(N), TablesOf(N), {})
<1>1. Enumerates(Tables(ts), Created(N)) /\ Covered(Tables(ts), {})
  BY TablesSeq
<1>2. ToSet(Tables(ts)) = Created(N)
  BY <1>1 DEF Enumerates
<1>3. MakesOf(Created(N)) = TablesOf(N) /\ ObjectsOf(Created(N)) = TablesOf(N)
  <2>1. \A s \in Created(N) : \E t \in N : s.makes = Table(t) /\ s.with = {}
    BY DEF Created, Create
  <2>2. \A t \in N : \E s \in Created(N) : s.makes = Table(t) /\ s.with = {}
    <3> SUFFICES ASSUME NEW t \in N PROVE \E s \in Created(N) : s.makes = Table(t) /\ s.with = {}
      OBVIOUS
    <3> DEFINE s == Create(t, {})
    <3> s \in Created(N) /\ s.makes = Table(t) /\ s.with = {}
      BY DEF Created, Create
    <3> HIDE DEF s
    <3> QED
      OBVIOUS
  <2>3. \A s \in Created(N) : s.makes \in TablesOf(N) /\ s.with \subseteq TablesOf(N)
    BY <2>1 DEF TablesOf
  <2>4. \A m \in TablesOf(N) : \E s \in Created(N) : m = s.makes
    BY <2>2 DEF TablesOf
  <2>5. \A o \in TablesOf(N) : \E s \in Created(N) : o = s.makes \/ o \in s.with
    BY <2>2 DEF TablesOf
  <2>6. Accounts(Created(N), TablesOf(N), TablesOf(N))
    BY <2>3, <2>4, <2>5 DEF Accounts
  <2> QED
    BY <2>6, ObjectsAre
<1>4. \A s \in Created(N) : Proper(s)
  BY DEF Created, Create, Proper, Table, Key, Hypertable
<1> QED
  BY <1>1, <1>2, <1>3, <1>4 DEF Script

\* What Keyed makes.
LEMMA KeyedScript ==
    ASSUME NEW ts, NEW N, Enumerates(ts, N)
    PROVE  Script(Keyed(ts), TablesOf(N), TablesOf(N) \union KeysOf(N), {})
<1>1. Enumerates(Keyed(ts), CreatedKeyed(N)) /\ Covered(Keyed(ts), {})
  BY KeyedSeq
<1>2. ToSet(Keyed(ts)) = CreatedKeyed(N)
  BY <1>1 DEF Enumerates
<1>3. MakesOf(CreatedKeyed(N)) = TablesOf(N) /\ ObjectsOf(CreatedKeyed(N)) = (TablesOf(N) \union KeysOf(N))
  <2>1. \A s \in CreatedKeyed(N) : \E t \in N : s.makes = Table(t) /\ s.with = {Key(t)}
    BY DEF CreatedKeyed, Create
  <2>2. \A t \in N : \E s \in CreatedKeyed(N) : s.makes = Table(t) /\ s.with = {Key(t)}
    <3> SUFFICES ASSUME NEW t \in N PROVE
             \E s \in CreatedKeyed(N) : s.makes = Table(t) /\ s.with = {Key(t)}
      OBVIOUS
    <3> DEFINE s == Create(t, {Key(t)})
    <3> s \in CreatedKeyed(N) /\ s.makes = Table(t) /\ s.with = {Key(t)}
      BY DEF CreatedKeyed, Create
    <3> HIDE DEF s
    <3> QED
      OBVIOUS
  <2>3. \A s \in CreatedKeyed(N) :
            /\ s.makes \in TablesOf(N) /\ s.makes \in (TablesOf(N) \union KeysOf(N))
            /\ s.with \subseteq (TablesOf(N) \union KeysOf(N))
    BY <2>1 DEF TablesOf, KeysOf
  <2>4. \A m \in TablesOf(N) : \E s \in CreatedKeyed(N) : m = s.makes
    BY <2>2 DEF TablesOf, KeysOf
  <2>5. \A o \in (TablesOf(N) \union KeysOf(N)) : \E s \in CreatedKeyed(N) : o = s.makes \/ o \in s.with
    BY <2>2 DEF TablesOf, KeysOf
  <2>6. Accounts(CreatedKeyed(N), TablesOf(N), (TablesOf(N) \union KeysOf(N)))
    BY <2>3, <2>4, <2>5 DEF Accounts
  <2> QED
    BY <2>6, ObjectsAre
<1>4. \A s \in CreatedKeyed(N) : Proper(s)
  BY DEF CreatedKeyed, Create, Proper, Table, Key, Hypertable
<1> QED
  BY <1>1, <1>2, <1>3, <1>4 DEF Script

\* What Columns makes.
LEMMA ColumnsScript ==
    ASSUME NEW t, NEW cs, NEW N, Enumerates(cs, N)
    PROVE  Script(Columns(t, cs), ColumnsOf(t, N), ColumnsOf(t, N), {Table(t)})
<1>1. Enumerates(Columns(t, cs), Added(t, N)) /\ Covered(Columns(t, cs), {Table(t)})
  BY ColumnsSeq
<1>2. ToSet(Columns(t, cs)) = Added(t, N)
  BY <1>1 DEF Enumerates
<1>3. MakesOf(Added(t, N)) = ColumnsOf(t, N) /\ ObjectsOf(Added(t, N)) = ColumnsOf(t, N)
  <2>1. \A s \in Added(t, N) : \E c \in N : s.makes = Column(t, c) /\ s.with = {}
    BY DEF Added
  <2>2. \A c \in N : \E s \in Added(t, N) : s.makes = Column(t, c) /\ s.with = {}
    <3> SUFFICES ASSUME NEW c \in N PROVE \E s \in Added(t, N) : s.makes = Column(t,
             c) /\ s.with = {}
      OBVIOUS
    <3> DEFINE s == [makes |-> Column(t, c), with |-> {}, needs |-> {Table(t)}]
    <3> s \in Added(t, N) /\ s.makes = Column(t, c) /\ s.with = {}
      BY DEF Added
    <3> HIDE DEF s
    <3> QED
      OBVIOUS
  <2>3. \A s \in Added(t, N) : s.makes \in ColumnsOf(t, N) /\ s.makes \in ColumnsOf(t,
           N) /\ s.with \subseteq ColumnsOf(t, N)
    BY <2>1 DEF ColumnsOf
  <2>4. \A m \in ColumnsOf(t, N) : \E s \in Added(t, N) : m = s.makes
    BY <2>2 DEF ColumnsOf
  <2>5. \A o \in ColumnsOf(t, N) : \E s \in Added(t, N) : o = s.makes \/ o \in s.with
    BY <2>2 DEF ColumnsOf
  <2>6. Accounts(Added(t, N), ColumnsOf(t, N), ColumnsOf(t, N))
    BY <2>3, <2>4, <2>5 DEF Accounts
  <2> QED
    BY <2>6, ObjectsAre
<1>4. \A s \in Added(t, N) : Proper(s)
  BY DEF Added, Proper, Table, Column, Hypertable
<1> QED
  BY <1>1, <1>2, <1>3, <1>4 DEF Script

\* Any list of proper statements is a script from all that they build on.
LEMMA ListScript ==
    ASSUME NEW seq, NEW S, Enumerates(seq, S), \A s \in S : Proper(s)
    PROVE  Script(seq, MakesOf(S), ObjectsOf(S), UNION {s.needs : s \in S})
<1>1. ToSet(seq) = S
  BY DEF Enumerates
<1>2. \A i \in DOMAIN seq : seq[i] \in S
  BY <1>1 DEF ToSet
<1>3. \A i \in DOMAIN seq : seq[i].needs \subseteq UNION {s.needs : s \in S}
  BY <1>2
<1> QED
  BY <1>1, <1>3 DEF Script, Covered

\* The lists the scripts are written with.
LEMMA Listed ==
    /\ \A a : Enumerates(<<a>>, {a})
    /\ \A a, b : Enumerates(<<a, b>>, {a, b})
    /\ \A a, b, c : Enumerates(<<a, b, c>>, {a, b, c})
    /\ \A a, b, c, d : Enumerates(<<a, b, c, d>>, {a, b, c, d})
    /\ \A a, b, c, d, e : Enumerates(<<a, b, c, d, e>>, {a, b, c, d, e})
BY DEF Enumerates, ToSet

\* An index, the hypertable, a table with columns of its own: one statement each.
LEMMA IndexProper ==
    ASSUME NEW t, NEW i, NEW cs
    PROVE  /\ Proper(Index(t, i, cs)) /\ Index(t, i, cs).makes = <<"index", t, i>>
           /\ Index(t, i, cs).with = {}
           /\ Index(t, i, cs).needs = {Table(t)} \union ColumnsOf(t, cs)
BY DEF Index, Proper, Table, Key, Hypertable, ColumnsOf

\* What the statements of a revision build on.
LEMMA RevisionNeeds ==
    ASSUME NEW strict, NEW ups, NEW M, NEW O, NEW base, Script(ups, M, O, base)
    PROVE  LET r == Revision(strict, ups)
           IN  /\ r.needs \subseteq base /\ r.ups = ToSet(ups)
               /\ {s.makes : s \in r.ups} = M /\ UNION {{s.makes} \union s.with : s \in r.ups} = O
               /\ \A s \in r.ups : Proper(s)
<1>1. ups \in Seq(ToSet(ups)) /\ Len(ups) \in Nat /\ DOMAIN ups = 1..Len(ups)
  BY LenProperties DEF Script, Enumerates
<1>2. ASSUME NEW i \in DOMAIN ups PROVE ups[i].needs \ Objects(SubSeq(ups, 1, i - 1)) \subseteq base
  <2> DEFINE before == SubSeq(ups, 1, i - 1)
  <2>1. i \in 1..Len(ups) /\ 1 \in 1..(Len(ups) + 1) /\ i - 1 \in 0..Len(ups)
        /\ (i - 1) - 1 + 1 = i - 1
    BY <1>1
  <2>2. before \in Seq(ToSet(ups)) /\ Len(before) = i - 1 /\ \A j \in 1..(i - 1) : before[j] = ups[j]
    <3> USE <1>1, <2>1
    <3>1. /\ before \in Seq(ToSet(ups))
          /\ Len(before) = IF 1 <= i - 1 THEN (i - 1) - 1 + 1 ELSE 0
          /\ \A j \in 1..((i - 1) - 1 + 1) : before[j] = ups[1 + j - 1]
      <4> HIDE <2>1
      <4>1. 1 \in 1..(Len(ups) + 1) /\ i - 1 \in 0..Len(ups)
        BY <2>1
      <4> QED
        BY <4>1, <1>1, SubSeqProperties
    <3>2. \A j \in 1..(i - 1) : 1 + j - 1 = j
      OBVIOUS
    <3> HIDE DEF before
    <3> QED
      BY <3>1, <3>2, SMT
  <2>3. DOMAIN before = 1..(i - 1)
    <3> HIDE DEF before
    <3> QED
      BY <2>2, LenProperties
  <2>4. \A j \in 1..(i - 1) : ups[j].makes \in Objects(before)
    <3> HIDE DEF before
    <3> QED
      BY <2>2, <2>3 DEF Objects, ToSet
  <2>5. ups[i].needs \subseteq base \union {ups[j].makes : j \in 1..(i - 1)}
    BY DEF Script, Covered
  <2> HIDE DEF before
  <2>6. ups[i].needs \ Objects(before) \subseteq base
    BY <2>4, <2>5
  <2> USE DEF before
  <2> QED
    BY <2>6
<1>3. Revision(strict, ups).needs \subseteq base
  BY <1>2 DEF Revision
<1>4. Revision(strict, ups).ups = ToSet(ups)
  BY DEF Revision
<1>5. MakesOf(ToSet(ups)) = M /\ ObjectsOf(ToSet(ups)) = O /\ \A s \in ToSet(ups) : Proper(s)
  BY DEF Script
<1> QED
  BY <1>3, <1>4, <1>5 DEF MakesOf, ObjectsOf

-----------------------------------------------------------------------------
(* What the revisions make. *)

\* The tables of each revision without and with a key, its columns and its indexes.
Plain == <<
    {"symbols"} \union {"validation_reports", "validation_windows"}
        \union {"model_runs", "model_artifacts"}
        \union {"live_signals", "closed_signals", "scanner_runs", "provider_requests", "exports"},
    {}, {"replay_runs", "simulated_trades"},
    {"replay_sensitivity_runs", "replay_sensitivity_scenarios", "backtest_comparisons"},
    {}, {"model_calibration_bins", "model_comparisons"},
    {"replay_window_sets", "replay_window_results", "model_calibration_drift_reports",
     "model_calibration_drift_windows", "model_review_reports"},
    {"research_cycle_artifacts", "champion_challenger_comparisons"}, {}, {}, {}, {}>>
WithKey == <<
    {"bars", "features", "candidate_signals", "labels"} \union {"active_models"}
        \union {"daily_reviews"},
    {}, {"pipeline_build_windows"}, {}, {"model_evidence_cells", "candidate_score_audits"},
    {"model_calibration_audits"}, {},
    {"research_cycles"} \union {"model_proposals", "model_decision_ledger"},
    {"scheduler_jobs", "scheduler_job_events"}, {},
    {"provider_capability_checks", "ingestion_runs"},
    {"quote_snapshots", "data_freshness_reports"}>>
ReplaySet == ColumnsOf("replay_runs", ToSet(ReplayColumns))
LeaseSet == ColumnsOf("scheduler_jobs", ToSet(LeaseColumns))
ReviewSet == ColumnsOf("provider_capability_checks", ToSet(ReviewColumns))
ColumnsAt == <<{}, {}, {}, ReplaySet, {}, {}, {}, {}, {}, LeaseSet, {}, ReviewSet>>
Indexed(t, i) == <<"index", t, i>>
IndexesAt == <<
    {Indexed("bars", "lookup"), Indexed("features", "lookup"),
     Indexed("live_signals", "latest")},
    {Indexed("features", "lookup_version"),
     Indexed("labels", "symbol_ts_setup_side_outcome"),
     Indexed("live_signals", "ticker_ts_status"),
     Indexed("validation_reports", "model_purpose_created"),
     Indexed("scanner_runs", "started")},
    {Indexed("candidate_signals", "replay_lookup"),
     Indexed("live_signals", "symbol_ts_status_model")},
    {Indexed("replay_runs", "config_hash")}, {}, {}, {}, {}, {},
    {Indexed("scheduler_jobs", "lease_expires"), Indexed("scheduler_jobs", "lease_owner")},
    {}, {Indexed("provider_capability_checks", "review")}>>
BaseAt == <<{}, {Table("features"), Table("labels"), Table("live_signals"),
                 Table("validation_reports"), Table("scanner_runs")},
    {Table("candidate_signals"), Table("live_signals")}, {Table("replay_runs"), Table("bars")},
    {}, {}, {}, {}, {}, {Table("scheduler_jobs")}, {}, {Table("provider_capability_checks")}>>

MakesAt(k) == TablesOf(Plain[k]) \union TablesOf(WithKey[k]) \union (ColumnsAt[k] \union IndexesAt[k])
New(k) == MakesAt(k) \union KeysOf(WithKey[k])

\* Tables and keys of two sets of names.
LEMMA TablesUnion ==
    /\ \A A, B : TablesOf(A \union B) = TablesOf(A) \union TablesOf(B)
    /\ \A A, B : KeysOf(A \union B) = KeysOf(A) \union KeysOf(B)
    /\ TablesOf({}) = {} /\ KeysOf({}) = {}
BY DEF TablesOf, KeysOf

\* A script that creates the tables P and K, those in K with their keys, makes E, and brings F
\* along.
Part(seq, P, K, E, F, base) ==
    Script(seq, TablesOf(P) \union TablesOf(K) \union E,
           TablesOf(P) \union TablesOf(K) \union E \union (KeysOf(K) \union F), base)

\* One part after another.
LEMMA PartConcat ==
    ASSUME NEW s, NEW P, NEW K, NEW E, NEW F, NEW base, Part(s, P, K, E, F, base),
           NEW t, NEW P2, NEW K2, NEW E2, NEW F2, NEW more, Part(t, P2, K2, E2, F2, more),
           more \subseteq base \union TablesOf(P) \union TablesOf(K) \union E
    PROVE  Part(s \o t, P \union P2, K \union K2, E \union E2, F \union F2, base)
<1> DEFINE M == TablesOf(P) \union TablesOf(K) \union E
           M2 == TablesOf(P2) \union TablesOf(K2) \union E2
           O == M \union (KeysOf(K) \union F)
           O2 == M2 \union (KeysOf(K2) \union F2)
<1>1. Script(s, M, O, base) /\ Script(t, M2, O2, more) /\ more \subseteq base \union M
  BY DEF Part
<1>2. Script(s \o t, M \union M2, O \union O2, base)
  <2> HIDE DEF M, M2, O, O2
  <2> QED
    BY <1>1, ScriptConcat
<1>3. /\ TablesOf(P \union P2) = TablesOf(P) \union TablesOf(P2)
      /\ TablesOf(K \union K2) = TablesOf(K) \union TablesOf(K2)
      /\ KeysOf(K \union K2) = KeysOf(K) \union KeysOf(K2)
  BY TablesUnion
<1>4. M \union M2 = TablesOf(P \union P2) \union TablesOf(K \union K2) \union (E \union E2)
  BY <1>3
<1>5. O \union O2 = TablesOf(P \union P2) \union TablesOf(K \union K2) \union (E \union E2)
                   \union (KeysOf(K \union K2) \union (F \union F2))
  BY <1>3
<1> QED
  BY <1>2, <1>4, <1>5 DEF Part

\* The parts scripts are put together from: tables without a key,
LEMMA TablesPart ==
    ASSUME NEW ts, NEW N, Enumerates(ts, N), N \intersect KeyedTables = {}
    PROVE  Part(Tables(ts), N, {}, {}, {}, {})
<1>1. Script(Tables(ts), TablesOf(N), TablesOf(N), {})
  BY TablesScript
<1>2. /\ TablesOf(N) \union TablesOf({}) \union {} = TablesOf(N)
      /\ TablesOf(N) \union TablesOf({}) \union {} \union (KeysOf({}) \union {}) = TablesOf(N)
  BY TablesUnion
<1> QED
  BY <1>1, <1>2 DEF Part

\* tables with one,
LEMMA KeyedPart ==
    ASSUME NEW ts, NEW N, Enumerates(ts, N)
    PROVE  Part(Keyed(ts), {}, N, {}, {}, {})
<1>1. Script(Keyed(ts), TablesOf(N), TablesOf(N) \union KeysOf(N), {})
  BY KeyedScript
<1>2. /\ TablesOf({}) \union TablesOf(N) \union {} = TablesOf(N)
      /\ TablesOf({}) \union TablesOf(N) \union {} \union (KeysOf(N) \union {}) = TablesOf(N) \union KeysOf(N)
  BY TablesUnion
<1> QED
  BY <1>1, <1>2 DEF Part

\* and columns.
LEMMA ColumnsPart ==
    ASSUME NEW t, NEW cs
    PROVE  Enumerates(cs, ToSet(cs)) => Part(Columns(t, cs), {}, {}, ColumnsOf(t, ToSet(cs)), {},
             {Table(t)})
<1> DEFINE N == ToSet(cs)
           C == ColumnsOf(t, N)
<1> SUFFICES ASSUME Enumerates(cs, N) PROVE Part(Columns(t, cs), {}, {}, C, {}, {Table(t)})
  OBVIOUS
<1>1. Script(Columns(t, cs), C, C, {Table(t)})
  <2> HIDE DEF N
  <2> QED
    BY ColumnsScript
<1>2. /\ TablesOf({}) \union TablesOf({}) \union C = C
      /\ TablesOf({}) \union TablesOf({}) \union C \union (KeysOf({}) \union {}) = C
  BY TablesUnion
<1> QED
  BY <1>1, <1>2 DEF Part

\* Statements that bring nothing along.
LEMMA ListPart ==
    ASSUME NEW seq, NEW S, Enumerates(seq, S), \A s \in S : Proper(s) /\ s.with = {}
    PROVE  Part(seq, {}, {}, MakesOf(S), {}, UNION {s.needs : s \in S})
<1>1. ObjectsOf(S) = MakesOf(S)
  BY DEF ObjectsOf, MakesOf
<1>2. Script(seq, MakesOf(S), ObjectsOf(S), UNION {s.needs : s \in S})
  BY ListScript
<1> QED
  BY <1>1, <1>2, TablesUnion DEF Part

\* The three lists of columns.
LEMMA ColumnLists ==
    Enumerates(ReplayColumns, ToSet(ReplayColumns)) /\ Enumerates(LeaseColumns, ToSet(LeaseColumns))
    /\ Enumerates(ReviewColumns, ToSet(ReviewColumns))
BY DEF Enumerates, ToSet, ReplayColumns, LeaseColumns, ReviewColumns

\* The columns added to the three tables.
LEMMA AlteredPart ==
    /\ Part(Columns("replay_runs", ReplayColumns), {}, {}, ReplaySet, {}, {Table("replay_runs")})
    /\ Part(Columns("scheduler_jobs", LeaseColumns), {}, {}, LeaseSet, {},
             {Table("scheduler_jobs")})
    /\ Part(Columns("provider_capability_checks", ReviewColumns), {}, {}, ReviewSet, {},
            {Table("provider_capability_checks")})
BY ColumnLists, ColumnsPart DEF ReplaySet, LeaseSet, ReviewSet

\* The tables of the first half of revision 0001 and of MetadataMarket.
LEMMA MarketPart ==
    Part(Baseline1,
        {"symbols"} \union {"validation_reports", "validation_windows"},
        {"bars", "features", "candidate_signals", "labels"},
        {}, {}, {})
<1> DEFINE N1 == {"symbols"}
           N2 == {"bars", "features", "candidate_signals", "labels"}
           N3 == {"validation_reports", "validation_windows"}
<1>1. Part(Tables(<<"symbols">>), N1, {}, {}, {}, {})
  <2>1. N1 \intersect KeyedTables = {}
    BY DEF KeyedTables
  <2> QED
    BY <2>1, Listed, TablesPart
<1>2. Part(Keyed(<<"bars", "features", "candidate_signals", "labels">>), {}, N2, {}, {}, {})
  BY Listed, KeyedPart
<1>3. Part(Tables(<<"validation_reports", "validation_windows">>), N3, {}, {}, {}, {})
  <2>1. N3 \intersect KeyedTables = {}
    BY DEF KeyedTables
  <2> QED
    BY <2>1, Listed, TablesPart
<1> HIDE DEF N1, N2, N3
<1>4. Part(Tables(<<"symbols">>)
        \o Keyed(<<"bars", "features", "candidate_signals", "labels">>), N1, N2, {}, {}, {})
  BY <1>1, <1>2, PartConcat
<1>5. Part(Baseline1, N1 \union N3, N2, {}, {}, {})
  BY <1>4, <1>3, PartConcat DEF Baseline1
<1> QED
  BY <1>5 DEF N1, N2, N3

\* Those of its second half.
LEMMA ModelsPart ==
    Part(Baseline2,
        {"model_runs", "model_artifacts"} \union {"live_signals", "closed_signals", "scanner_runs",
        "provider_requests", "exports"},
        {"active_models"} \union {"daily_reviews"},
        {}, {}, {})
<1> DEFINE N1 == {"model_runs", "model_artifacts"}
           N2 == {"active_models"}
           N3 == {"live_signals", "closed_signals", "scanner_runs", "provider_requests", "exports"}
           N4 == {"daily_reviews"}
<1>1. Part(Tables(<<"model_runs", "model_artifacts">>), N1, {}, {}, {}, {})
  <2>1. N1 \intersect KeyedTables = {}
    BY DEF KeyedTables
  <2> QED
    BY <2>1, Listed, TablesPart
<1>2. Part(Keyed(<<"active_models">>), {}, N2, {}, {}, {})
  BY Listed, KeyedPart
<1>3. Part(Tables(<<"live_signals", "closed_signals", "scanner_runs", "provider_requests",
         "exports">>), N3, {}, {}, {}, {})
  <2>1. N3 \intersect KeyedTables = {}
    BY DEF KeyedTables
  <2> QED
    BY <2>1, Listed, TablesPart
<1>4. Part(Keyed(<<"daily_reviews">>), {}, N4, {}, {}, {})
  BY Listed, KeyedPart
<1> HIDE DEF N1, N2, N3, N4
<1>5. Part(Tables(<<"model_runs", "model_artifacts">>)
        \o Keyed(<<"active_models">>), N1, N2, {}, {}, {})
  BY <1>1, <1>2, PartConcat
<1>6. Part(Tables(<<"model_runs", "model_artifacts">>)
        \o Keyed(<<"active_models">>)
        \o Tables(<<"live_signals", "closed_signals", "scanner_runs", "provider_requests",
                 "exports">>), N1 \union N3, N2, {}, {}, {})
  BY <1>5, <1>3, PartConcat
<1>7. Part(Baseline2, N1 \union N3, N2 \union N4, {}, {}, {})
  BY <1>6, <1>4, PartConcat DEF Baseline2
<1> QED
  BY <1>7 DEF N1, N2, N3, N4

\* The groups of the metadata: the models,
LEMMA MetadataModelsPart ==
    Part(MetadataModels,
        {"model_runs", "model_artifacts"} \union {"model_calibration_bins", "model_comparisons"},
        {"model_evidence_cells", "candidate_score_audits", "model_calibration_audits"},
        {}, {}, {})
<1> DEFINE N1 == {"model_runs", "model_artifacts"}
           N2 == {"model_evidence_cells", "candidate_score_audits", "model_calibration_audits"}
           N3 == {"model_calibration_bins", "model_comparisons"}
<1>1. Part(Tables(<<"model_runs", "model_artifacts">>), N1, {}, {}, {}, {})
  <2>1. N1 \intersect KeyedTables = {}
    BY DEF KeyedTables
  <2> QED
    BY <2>1, Listed, TablesPart
<1>2. Part(Keyed(<<"model_evidence_cells", "candidate_score_audits",
         "model_calibration_audits">>), {}, N2, {}, {}, {})
  BY Listed, KeyedPart
<1>3. Part(Tables(<<"model_calibration_bins", "model_comparisons">>), N3, {}, {}, {}, {})
  <2>1. N3 \intersect KeyedTables = {}
    BY DEF KeyedTables
  <2> QED
    BY <2>1, Listed, TablesPart
<1> HIDE DEF N1, N2, N3
<1>4. Part(Tables(<<"model_runs", "model_artifacts">>)
        \o Keyed(<<"model_evidence_cells", "candidate_score_audits",
                 "model_calibration_audits">>), N1, N2, {}, {}, {})
  BY <1>1, <1>2, PartConcat
<1>5. Part(MetadataModels, N1 \union N3, N2, {}, {}, {})
  BY <1>4, <1>3, PartConcat DEF MetadataModels
<1> QED
  BY <1>5 DEF N1, N2, N3

\* the reviews,
LEMMA MetadataReviewPart ==
    Part(MetadataReview,
        {"replay_window_sets", "replay_window_results", "model_calibration_drift_reports",
        "model_calibration_drift_windows", "model_review_reports"},
        {},
        {}, {}, {})
<1>1. {"replay_window_sets", "replay_window_results", "model_calibration_drift_reports",
        "model_calibration_drift_windows", "model_review_reports"} \intersect KeyedTables = {}
  BY DEF KeyedTables
<1> QED
  BY <1>1, Listed, TablesPart DEF MetadataReview

\* governance,
LEMMA MetadataGovernancePart ==
    Part(MetadataGovernance,
        {"research_cycle_artifacts", "champion_challenger_comparisons"},
        {"research_cycles"} \union {"model_proposals", "model_decision_ledger"},
        {}, {}, {})
<1> DEFINE N1 == {"research_cycles"}
           N2 == {"research_cycle_artifacts", "champion_challenger_comparisons"}
           N3 == {"model_proposals", "model_decision_ledger"}
<1>1. Part(Keyed(<<"research_cycles">>), {}, N1, {}, {}, {})
  BY Listed, KeyedPart
<1>2. Part(Tables(<<"research_cycle_artifacts", "champion_challenger_comparisons">>), N2, {}, {},
         {}, {})
  <2>1. N2 \intersect KeyedTables = {}
    BY DEF KeyedTables
  <2> QED
    BY <2>1, Listed, TablesPart
<1>3. Part(Keyed(<<"model_proposals", "model_decision_ledger">>), {}, N3, {}, {}, {})
  BY Listed, KeyedPart
<1> HIDE DEF N1, N2, N3
<1>4. Part(Keyed(<<"research_cycles">>)
        \o Tables(<<"research_cycle_artifacts", "champion_challenger_comparisons">>), N2, N1, {},
                 {}, {})
  BY <1>1, <1>2, PartConcat
<1>5. Part(MetadataGovernance, N2, N1 \union N3, {}, {}, {})
  BY <1>4, <1>3, PartConcat DEF MetadataGovernance
<1> QED
  BY <1>5 DEF N1, N2, N3

\* the runtime,
LEMMA MetadataRuntimePart ==
    Part(MetadataRuntime,
        {"live_signals", "closed_signals", "scanner_runs", "provider_requests"},
        {"scheduler_jobs"} \union {"scheduler_job_events", "active_models"},
        LeaseSet, {}, {})
<1> DEFINE N1 == {"scheduler_jobs"}
           N3 == {"scheduler_job_events", "active_models"}
           N4 == {"live_signals", "closed_signals", "scanner_runs", "provider_requests"}
<1>1. Part(Keyed(<<"scheduler_jobs">>), {}, N1, {}, {}, {})
  BY Listed, KeyedPart
<1>2. Part(Columns("scheduler_jobs", LeaseColumns), {}, {}, LeaseSet, {}, {Table("scheduler_jobs")})
  BY AlteredPart
<1>2a. {Table("scheduler_jobs")} \subseteq TablesOf(N1)
  BY DEF TablesOf
<1>3. Part(Keyed(<<"scheduler_job_events", "active_models">>), {}, N3, {}, {}, {})
  BY Listed, KeyedPart
<1>4. Part(Tables(<<"live_signals", "closed_signals", "scanner_runs", "provider_requests">>), N4,
         {}, {}, {}, {})
  <2>1. N4 \intersect KeyedTables = {}
    BY DEF KeyedTables
  <2> QED
    BY <2>1, Listed, TablesPart
<1> HIDE DEF N1, N3, N4
<1>5. Part(Keyed(<<"scheduler_jobs">>)
        \o Columns("scheduler_jobs", LeaseColumns), {}, N1, LeaseSet, {}, {})
  BY <1>1, <1>2, <1>2a, PartConcat
<1>6. Part(Keyed(<<"scheduler_jobs">>)
        \o Columns("scheduler_jobs", LeaseColumns)
        \o Keyed(<<"scheduler_job_events", "active_models">>), {}, N1 \union N3, LeaseSet, {}, {})
  BY <1>5, <1>3, PartConcat
<1>7. Part(MetadataRuntime, N4, N1 \union N3, LeaseSet, {}, {})
  BY <1>6, <1>4, PartConcat DEF MetadataRuntime
<1> QED
  BY <1>7 DEF N1, N3, N4

\* the provider,
LEMMA MetadataProviderPart ==
    Part(MetadataProvider,
        {"exports"},
        {"provider_capability_checks"} \union {"ingestion_runs", "quote_snapshots",
        "data_freshness_reports"},
        ReviewSet, {}, {})
<1> DEFINE N1 == {"provider_capability_checks"}
           N3 == {"ingestion_runs", "quote_snapshots", "data_freshness_reports"}
           N4 == {"exports"}
<1>1. Part(Keyed(<<"provider_capability_checks">>), {}, N1, {}, {}, {})
  BY Listed, KeyedPart
<1>2. Part(Columns("provider_capability_checks", ReviewColumns), {}, {}, ReviewSet, {},
         {Table("provider_capability_checks")})
  BY AlteredPart
<1>2a. {Table("provider_capability_checks")} \subseteq TablesOf(N1)
  BY DEF TablesOf
<1>3. Part(Keyed(<<"ingestion_runs", "quote_snapshots", "data_freshness_reports">>), {}, N3, {},
         {}, {})
  BY Listed, KeyedPart
<1>4. Part(Tables(<<"exports">>), N4, {}, {}, {}, {})
  <2>1. N4 \intersect KeyedTables = {}
    BY DEF KeyedTables
  <2> QED
    BY <2>1, Listed, TablesPart
<1> HIDE DEF N1, N3, N4
<1>5. Part(Keyed(<<"provider_capability_checks">>)
        \o Columns("provider_capability_checks", ReviewColumns), {}, N1, ReviewSet, {}, {})
  BY <1>1, <1>2, <1>2a, PartConcat
<1>6. Part(Keyed(<<"provider_capability_checks">>)
        \o Columns("provider_capability_checks", ReviewColumns)
        \o Keyed(<<"ingestion_runs", "quote_snapshots", "data_freshness_reports">>), {},
                 N1 \union N3, ReviewSet, {}, {})
  BY <1>5, <1>3, PartConcat
<1>7. Part(MetadataProvider, N4, N1 \union N3, ReviewSet, {}, {})
  BY <1>6, <1>4, PartConcat DEF MetadataProvider
<1> QED
  BY <1>7 DEF N1, N3, N4

\* and the replays.
LEMMA MetadataReplayPart ==
    Part(MetadataReplay,
        {"replay_runs"} \union {"replay_sensitivity_runs", "replay_sensitivity_scenarios",
        "backtest_comparisons", "simulated_trades"},
        {"pipeline_build_windows", "daily_reviews"},
        ReplaySet, {}, {})
<1> DEFINE N1 == {"replay_runs"}
           N3 == {"replay_sensitivity_runs", "replay_sensitivity_scenarios", "backtest_comparisons",
                 "simulated_trades"}
           N4 == {"pipeline_build_windows", "daily_reviews"}
<1>1. Part(Tables(<<"replay_runs">>), N1, {}, {}, {}, {})
  <2>1. N1 \intersect KeyedTables = {}
    BY DEF KeyedTables
  <2> QED
    BY <2>1, Listed, TablesPart
<1>2. Part(Columns("replay_runs", ReplayColumns), {}, {}, ReplaySet, {}, {Table("replay_runs")})
  BY AlteredPart
<1>2a. {Table("replay_runs")} \subseteq TablesOf(N1)
  BY DEF TablesOf
<1>3. Part(Tables(<<"replay_sensitivity_runs", "replay_sensitivity_scenarios",
         "backtest_comparisons",
        "simulated_trades">>), N3, {}, {}, {}, {})
  <2>1. N3 \intersect KeyedTables = {}
    BY DEF KeyedTables
  <2> QED
    BY <2>1, Listed, TablesPart
<1>4. Part(Keyed(<<"pipeline_build_windows", "daily_reviews">>), {}, N4, {}, {}, {})
  BY Listed, KeyedPart
<1> HIDE DEF N1, N3, N4
<1>5. Part(Tables(<<"replay_runs">>)
        \o Columns("replay_runs", ReplayColumns), N1, {}, ReplaySet, {}, {})
  BY <1>1, <1>2, <1>2a, PartConcat
<1>6. Part(Tables(<<"replay_runs">>)
        \o Columns("replay_runs", ReplayColumns)
        \o Tables(<<"replay_sensitivity_runs", "replay_sensitivity_scenarios",
                 "backtest_comparisons", "simulated_trades">>), N1 \union N3, {}, ReplaySet, {}, {})
  BY <1>5, <1>3, PartConcat
<1>7. Part(MetadataReplay, N1 \union N3, N4, ReplaySet, {}, {})
  BY <1>6, <1>4, PartConcat DEF MetadataReplay
<1> QED
  BY <1>7 DEF N1, N3, N4

\* The indexes of revision 0001.
LEMMA Indexes1 ==
    Part(<<Index("bars", "lookup", {}), Index("features", "lookup", {}), Index("live_signals",
             "latest",
         {})>>,
         {}, {}, IndexesAt[1], {}, {Table("bars"), Table("features"), Table("live_signals")})
<1> DEFINE seq == <<Index("bars", "lookup", {}), Index("features", "lookup", {}),
         Index("live_signals", "latest",
                  {})>>
           S == {Index("bars", "lookup", {}), Index("features", "lookup", {}),
                    Index("live_signals", "latest",
                  {})}
           I == {Indexed("bars", "lookup"), Indexed("features", "lookup"),
                    Indexed("live_signals", "latest")}
           base == {Table("bars"), Table("features"), Table("live_signals")}
<1>1. Enumerates(seq, S)
  BY Listed
<1>2. \A s \in S : Proper(s) /\ s.with = {}
  BY IndexProper
<1>3. MakesOf(S) = I
  <2>1. /\ Index("bars", "lookup", {}).makes = Indexed("bars", "lookup")
      /\ Index("features", "lookup", {}).makes = Indexed("features", "lookup")
      /\ Index("live_signals", "latest", {}).makes = Indexed("live_signals", "latest")
    BY IndexProper DEF Indexed
  <2> QED
    BY <2>1 DEF MakesOf
<1>4. UNION {s.needs : s \in S} = base
  BY IndexProper DEF ColumnsOf
<1>5. IndexesAt[1] = I
  BY DEF IndexesAt
<1>6. Part(seq, {}, {}, I, {}, base)
  <2> HIDE DEF seq, S, I, base
  <2> QED
    BY <1>1, <1>2, <1>3, <1>4, ListPart
<1> QED
  BY <1>5, <1>6

\* The indexes of revision 0002.
LEMMA Indexes2 ==
    Part(<<Index("features", "lookup_version", {}), Index("labels",
             "symbol_ts_setup_side_outcome", {}),
         Index("live_signals", "ticker_ts_status", {}), Index("validation_reports",
         "model_purpose_created", {}), Index("scanner_runs", "started", {})>>,
         {}, {}, IndexesAt[2], {}, {Table("features"), Table("labels"), Table("live_signals"),
                  Table("validation_reports"),
         Table("scanner_runs")})
<1> DEFINE seq == <<Index("features", "lookup_version", {}), Index("labels",
         "symbol_ts_setup_side_outcome", {}),
                  Index("live_signals", "ticker_ts_status", {}), Index("validation_reports",
                  "model_purpose_created", {}), Index("scanner_runs", "started", {})>>
           S == {Index("features", "lookup_version", {}), Index("labels",
                    "symbol_ts_setup_side_outcome", {}),
                  Index("live_signals", "ticker_ts_status", {}), Index("validation_reports",
                  "model_purpose_created", {}), Index("scanner_runs", "started", {})}
           I == {Indexed("features", "lookup_version"), Indexed("labels",
                    "symbol_ts_setup_side_outcome"),
                  Indexed("live_signals", "ticker_ts_status"), Indexed("validation_reports",
                  "model_purpose_created"), Indexed("scanner_runs", "started")}
           base == {Table("features"), Table("labels"), Table("live_signals"),
                    Table("validation_reports"),
                  Table("scanner_runs")}
<1>1. Enumerates(seq, S)
  BY Listed
<1>2. \A s \in S : Proper(s) /\ s.with = {}
  BY IndexProper
<1>3. MakesOf(S) = I
  <2>1. /\ Index("features", "lookup_version", {}).makes = Indexed("features", "lookup_version")
      /\ Index("labels", "symbol_ts_setup_side_outcome", {}).makes = Indexed("labels",
               "symbol_ts_setup_side_outcome")
      /\ Index("live_signals", "ticker_ts_status", {}).makes = Indexed("live_signals",
               "ticker_ts_status")
      /\ Index("validation_reports", "model_purpose_created",
               {}).makes = Indexed("validation_reports", "model_purpose_created")
      /\ Index("scanner_runs", "started", {}).makes = Indexed("scanner_runs", "started")
    BY IndexProper DEF Indexed
  <2> QED
    BY <2>1 DEF MakesOf
<1>4. UNION {s.needs : s \in S} = base
  BY IndexProper DEF ColumnsOf
<1>5. IndexesAt[2] = I
  BY DEF IndexesAt
<1>6. Part(seq, {}, {}, I, {}, base)
  <2> HIDE DEF seq, S, I, base
  <2> QED
    BY <1>1, <1>2, <1>3, <1>4, ListPart
<1> QED
  BY <1>5, <1>6

\* The indexes of revision 0003, which are also the first of the startup script.
LEMMA Indexes3 ==
    Part(<<Index("candidate_signals", "replay_lookup", {}), Index("live_signals",
             "symbol_ts_status_model",
         {})>>,
         {}, {}, IndexesAt[3], {}, {Table("candidate_signals"), Table("live_signals")})
<1> DEFINE seq == <<Index("candidate_signals", "replay_lookup", {}), Index("live_signals",
         "symbol_ts_status_model",
                  {})>>
           S == {Index("candidate_signals", "replay_lookup", {}), Index("live_signals",
                    "symbol_ts_status_model",
                  {})}
           I == {Indexed("candidate_signals", "replay_lookup"), Indexed("live_signals",
                    "symbol_ts_status_model")}
           base == {Table("candidate_signals"), Table("live_signals")}
<1>1. Enumerates(seq, S)
  BY Listed
<1>2. \A s \in S : Proper(s) /\ s.with = {}
  BY IndexProper
<1>3. MakesOf(S) = I
  <2>1. /\ Index("candidate_signals", "replay_lookup", {}).makes = Indexed("candidate_signals",
           "replay_lookup")
      /\ Index("live_signals", "symbol_ts_status_model", {}).makes = Indexed("live_signals",
               "symbol_ts_status_model")
    BY IndexProper DEF Indexed
  <2> QED
    BY <2>1 DEF MakesOf
<1>4. UNION {s.needs : s \in S} = base
  BY IndexProper DEF ColumnsOf
<1>5. IndexesAt[3] = I
  BY DEF IndexesAt
<1>6. Part(seq, {}, {}, I, {}, base)
  <2> HIDE DEF seq, S, I, base
  <2> QED
    BY <1>1, <1>2, <1>3, <1>4, ListPart
<1> QED
  BY <1>5, <1>6

\* The index of revision 0004.
LEMMA Indexes4 ==
    Part(<<Index("replay_runs", "config_hash", {"config_hash"})>>,
         {}, {}, IndexesAt[4], {}, {Table("replay_runs"), Column("replay_runs", "config_hash")})
<1> DEFINE seq == <<Index("replay_runs", "config_hash", {"config_hash"})>>
           S == {Index("replay_runs", "config_hash", {"config_hash"})}
           I == {Indexed("replay_runs", "config_hash")}
           base == {Table("replay_runs"), Column("replay_runs", "config_hash")}
<1>1. Enumerates(seq, S)
  BY Listed
<1>2. \A s \in S : Proper(s) /\ s.with = {}
  BY IndexProper
<1>3. MakesOf(S) = I
  <2>1. /\ Index("replay_runs", "config_hash", {"config_hash"}).makes = Indexed("replay_runs",
           "config_hash")
    BY IndexProper DEF Indexed
  <2> QED
    BY <2>1 DEF MakesOf
<1>4. UNION {s.needs : s \in S} = base
  BY IndexProper DEF ColumnsOf
<1>5. IndexesAt[4] = I
  BY DEF IndexesAt
<1>6. Part(seq, {}, {}, I, {}, base)
  <2> HIDE DEF seq, S, I, base
  <2> QED
    BY <1>1, <1>2, <1>3, <1>4, ListPart
<1> QED
  BY <1>5, <1>6

\* The indexes of revision 0010.
LEMMA Indexes10 ==
    Part(<<Index("scheduler_jobs", "lease_expires", {"lease_expires_at"}), Index("scheduler_jobs",
         "lease_owner", {"lease_owner"})>>,
         {}, {}, IndexesAt[10], {}, {Table("scheduler_jobs"), Column("scheduler_jobs",
                  "lease_expires_at"), Column("scheduler_jobs",
         "lease_owner")})
<1> DEFINE seq == <<Index("scheduler_jobs", "lease_expires", {"lease_expires_at"}),
         Index("scheduler_jobs",
                  "lease_owner", {"lease_owner"})>>
           S == {Index("scheduler_jobs", "lease_expires", {"lease_expires_at"}),
                    Index("scheduler_jobs",
                  "lease_owner", {"lease_owner"})}
           I == {Indexed("scheduler_jobs", "lease_expires"), Indexed("scheduler_jobs",
                    "lease_owner")}
           base == {Table("scheduler_jobs"), Column("scheduler_jobs", "lease_expires_at"),
                    Column("scheduler_jobs",
                  "lease_owner")}
<1>1. Enumerates(seq, S)
  BY Listed
<1>2. \A s \in S : Proper(s) /\ s.with = {}
  BY IndexProper
<1>3. MakesOf(S) = I
  <2>1. /\ Index("scheduler_jobs", "lease_expires",
           {"lease_expires_at"}).makes = Indexed("scheduler_jobs", "lease_expires")
      /\ Index("scheduler_jobs", "lease_owner",
               {"lease_owner"}).makes = Indexed("scheduler_jobs", "lease_owner")
    BY IndexProper DEF Indexed
  <2> QED
    BY <2>1 DEF MakesOf
<1>4. UNION {s.needs : s \in S} = base
  BY IndexProper DEF ColumnsOf
<1>5. IndexesAt[10] = I
  BY DEF IndexesAt
<1>6. Part(seq, {}, {}, I, {}, base)
  <2> HIDE DEF seq, S, I, base
  <2> QED
    BY <1>1, <1>2, <1>3, <1>4, ListPart
<1> QED
  BY <1>5, <1>6

\* The index of revision 0012.
LEMMA Indexes12 ==
    Part(<<Index("provider_capability_checks", "review", {"operator_review_status"})>>,
         {}, {}, IndexesAt[12], {}, {Table("provider_capability_checks"),
                  Column("provider_capability_checks",
         "operator_review_status")})
<1> DEFINE seq == <<Index("provider_capability_checks", "review", {"operator_review_status"})>>
           S == {Index("provider_capability_checks", "review", {"operator_review_status"})}
           I == {Indexed("provider_capability_checks", "review")}
           base == {Table("provider_capability_checks"), Column("provider_capability_checks",
                  "operator_review_status")}
<1>1. Enumerates(seq, S)
  BY Listed
<1>2. \A s \in S : Proper(s) /\ s.with = {}
  BY IndexProper
<1>3. MakesOf(S) = I
  <2>1. /\ Index("provider_capability_checks", "review",
           {"operator_review_status"}).makes = Indexed("provider_capability_checks", "review")
    BY IndexProper DEF Indexed
  <2> QED
    BY <2>1 DEF MakesOf
<1>4. UNION {s.needs : s \in S} = base
  BY IndexProper DEF ColumnsOf
<1>5. IndexesAt[12] = I
  BY DEF IndexesAt
<1>6. Part(seq, {}, {}, I, {}, base)
  <2> HIDE DEF seq, S, I, base
  <2> QED
    BY <1>1, <1>2, <1>3, <1>4, ListPart
<1> QED
  BY <1>5, <1>6

\* The startup script makes those three groups once their columns are there.
LEMMA LateIndexesPart ==
    Part(<<Index("replay_runs", "config_hash", {"config_hash"}), Index("scheduler_jobs",
             "lease_expires",
         {"lease_expires_at"}), Index("scheduler_jobs", "lease_owner", {"lease_owner"}),
         Index("provider_capability_checks", "review", {"operator_review_status"})>>,
         {}, {}, IndexesAt[4] \union IndexesAt[10] \union IndexesAt[12], {},
                  {Table("replay_runs"), Column("replay_runs", "config_hash"),
                           Table("scheduler_jobs"),
         Column("scheduler_jobs", "lease_expires_at"), Column("scheduler_jobs", "lease_owner"),
         Table("provider_capability_checks"), Column("provider_capability_checks",
         "operator_review_status")})
<1> DEFINE seq == <<Index("replay_runs", "config_hash", {"config_hash"}), Index("scheduler_jobs",
         "lease_expires",
                  {"lease_expires_at"}), Index("scheduler_jobs", "lease_owner", {"lease_owner"}),
                  Index("provider_capability_checks", "review", {"operator_review_status"})>>
           S == {Index("replay_runs", "config_hash", {"config_hash"}), Index("scheduler_jobs",
                    "lease_expires",
                  {"lease_expires_at"}), Index("scheduler_jobs", "lease_owner", {"lease_owner"}),
                  Index("provider_capability_checks", "review", {"operator_review_status"})}
           I == {Indexed("replay_runs", "config_hash"), Indexed("scheduler_jobs", "lease_expires"),
                  Indexed("scheduler_jobs", "lease_owner"), Indexed("provider_capability_checks",
                  "review")}
           base == {Table("replay_runs"), Column("replay_runs", "config_hash"),
                    Table("scheduler_jobs"),
                  Column("scheduler_jobs", "lease_expires_at"), Column("scheduler_jobs",
                  "lease_owner"), Table("provider_capability_checks"),
                  Column("provider_capability_checks", "operator_review_status")}
<1>1. Enumerates(seq, S)
  BY Listed
<1>2. \A s \in S : Proper(s) /\ s.with = {}
  BY IndexProper
<1>3. MakesOf(S) = I
  <2>1. /\ Index("replay_runs", "config_hash", {"config_hash"}).makes = Indexed("replay_runs",
           "config_hash")
      /\ Index("scheduler_jobs", "lease_expires",
               {"lease_expires_at"}).makes = Indexed("scheduler_jobs", "lease_expires")
      /\ Index("scheduler_jobs", "lease_owner",
               {"lease_owner"}).makes = Indexed("scheduler_jobs", "lease_owner")
      /\ Index("provider_capability_checks", "review",
               {"operator_review_status"}).makes = Indexed("provider_capability_checks", "review")
    BY IndexProper DEF Indexed
  <2> QED
    BY <2>1 DEF MakesOf
<1>4. UNION {s.needs : s \in S} = base
  BY IndexProper DEF ColumnsOf
<1>5. IndexesAt[4] \union IndexesAt[10] \union IndexesAt[12] = I
  BY DEF IndexesAt
<1>6. Part(seq, {}, {}, I, {}, base)
  <2> HIDE DEF seq, S, I, base
  <2> QED
    BY <1>1, <1>2, <1>3, <1>4, ListPart
<1> QED
  BY <1>5, <1>6

\* The hypertable.
LEMMA HypertablePart ==
    Part(<<Hyper>>, {}, {}, {Hypertable}, {}, {Table("bars")})
<1>1. Enumerates(<<Hyper>>, {Hyper})
  BY Listed
<1>2. Proper(Hyper) /\ Hyper.with = {} /\ Hyper.makes = Hypertable /\ Hyper.needs = {Table("bars")}
  BY DEF Hyper, Proper, Hypertable, Table
<1>3. MakesOf({Hyper}) = {Hypertable} /\ UNION {s.needs : s \in {Hyper}} = {Table("bars")}
  BY <1>2 DEF MakesOf
<1>4. Part(<<Hyper>>, {}, {}, MakesOf({Hyper}), {}, UNION {s.needs : s \in {Hyper}})
  BY <1>1, <1>2, ListPart
<1> QED
  BY <1>3, <1>4

\* A table of today's columns, as initialize creates it.
LEMMA WholeTable ==
    ASSUME NEW t, NEW F, NEW keys, Proper(Create(t, keys \union F)), keys \subseteq {Key(t)}
    PROVE  /\ keys = {} => Part(<<Create(t, keys \union F)>>, {t}, {}, {}, F, {})
           /\ keys = {Key(t)} => Part(<<Create(t, keys \union F)>>, {}, {t}, {}, F, {})
<1> DEFINE a == Create(t, keys \union F)
<1>1. a.makes = Table(t) /\ a.with = keys \union F /\ a.needs = {}
  BY DEF Create
<1>2. Enumerates(<<a>>, {a})
  BY Listed
<1> HIDE DEF a
<1>3. Script(<<a>>, MakesOf({a}), ObjectsOf({a}), {})
  <2>1. UNION {s.needs : s \in {a}} = {}
    BY <1>1
  <2>2. \A s \in {a} : Proper(s)
    BY DEF a
  <2> QED
    BY <1>2, <2>1, <2>2, ListScript
<1>4. MakesOf({a}) = {Table(t)} /\ ObjectsOf({a}) = {Table(t)} \union (keys \union F)
  BY <1>1 DEF MakesOf, ObjectsOf
<1>5. TablesOf({t}) = {Table(t)} /\ KeysOf({t}) = {Key(t)}
  BY DEF TablesOf, KeysOf
<1>6. /\ TablesOf({t}) \union TablesOf({}) \union {} = {Table(t)}
      /\ TablesOf({}) \union TablesOf({t}) \union {} = {Table(t)}
      /\ keys = {} => TablesOf({t}) \union TablesOf({}) \union {} \union (KeysOf({}) \union F)
                       = {Table(t)} \union (keys \union F)
      /\ keys = {Key(t)} => TablesOf({}) \union TablesOf({t}) \union {} \union (KeysOf({t}) \union F)
                       = {Table(t)} \union (keys \union F)
  BY <1>5, TablesUnion
<1> QED
  BY <1>3, <1>4, <1>6 DEF Part, a

\* The three tables that initialize creates with the columns that came later.
LEMMA WholeTables ==
    /\ Part(<<Create("scheduler_jobs",
             {Key("scheduler_jobs")} \union Objects(Columns("scheduler_jobs", LeaseColumns)))>>,
            {}, {"scheduler_jobs"}, {}, LeaseSet, {})
    /\ Part(<<Create("provider_capability_checks", {Key("provider_capability_checks")}
            \union Objects(Columns("provider_capability_checks", ReviewColumns)))>>,
            {}, {"provider_capability_checks"}, {}, ReviewSet, {})
    /\ Part(<<Create("replay_runs", Objects(Columns("replay_runs", ReplayColumns)))>>,
            {"replay_runs"}, {}, {}, ReplaySet, {})
<1>1. /\ Objects(Columns("replay_runs", ReplayColumns)) = ReplaySet
      /\ Objects(Columns("scheduler_jobs", LeaseColumns)) = LeaseSet
      /\ Objects(Columns("provider_capability_checks", ReviewColumns)) = ReviewSet
  BY ColumnLists, ColumnsScript DEF Script, Objects, ObjectsOf, ReplaySet, LeaseSet, ReviewSet
<1>2. Proper(Create("scheduler_jobs", {Key("scheduler_jobs")} \union LeaseSet))
  BY DEF Proper, Create, Table, Key, Hypertable, LeaseSet, ReviewSet, ColumnsOf, Column
<1>3. Proper(Create("provider_capability_checks",
         {Key("provider_capability_checks")} \union ReviewSet))
  BY DEF Proper, Create, Table, Key, Hypertable, LeaseSet, ReviewSet, ColumnsOf, Column
<1>4. Proper(Create("replay_runs", {} \union ReplaySet)) /\ {} \union ReplaySet = ReplaySet
  BY DEF Proper, Create, Table, Hypertable, KeyedTables, ReplaySet, ColumnsOf, Column
<1>5. Part(<<Create("scheduler_jobs", {Key("scheduler_jobs")} \union LeaseSet)>>,
           {}, {"scheduler_jobs"}, {}, LeaseSet, {})
  BY <1>2, WholeTable
<1>6. Part(<<Create("provider_capability_checks",
         {Key("provider_capability_checks")} \union ReviewSet)>>,
           {}, {"provider_capability_checks"}, {}, ReviewSet, {})
  BY <1>3, WholeTable
<1>7. Part(<<Create("replay_runs", {} \union ReplaySet)>>, {"replay_runs"}, {}, {}, ReplaySet, {})
  BY <1>4, WholeTable
<1> QED
  BY <1>1, <1>4, <1>5, <1>6, <1>7

\* A part from a base is one from a larger base.
LEMMA PartMore ==
    ASSUME NEW s, NEW P, NEW K, NEW E, NEW F, NEW base, Part(s, P, K, E, F, base),
           NEW more, base \subseteq more
    PROVE  Part(s, P, K, E, F, more)
BY CoveredMore DEF Part, Script

\* What the statements of revision k come to.
Applies(k) ==
    /\ Revisions[k].needs \subseteq BaseAt[k]
    /\ {s.makes : s \in Revisions[k].ups} \ {Hypertable} = MakesAt(k)
    /\ (UNION {{s.makes} \union s.with : s \in Revisions[k].ups}) \ {Hypertable} = New(k)
    /\ Revisions[k].strict => \A s \in Revisions[k].ups : s.makes # Hypertable
    /\ \A s \in Revisions[k].ups : Proper(s)

\* From the part that a revision is made of to what its statements come to.
LEMMA FromPart ==
    ASSUME NEW k, NEW strict \in BOOLEAN, NEW ups, NEW E, Revisions[k] = Revision(strict, ups),
           Part(ups, Plain[k], WithKey[k], E, {}, BaseAt[k]),
           E \ {Hypertable} = ColumnsAt[k] \union IndexesAt[k], strict => Hypertable \notin E
    PROVE  Applies(k)
<1> DEFINE M == TablesOf(Plain[k]) \union TablesOf(WithKey[k]) \union E
           O == M \union (KeysOf(WithKey[k]) \union {})
           r == Revisions[k]
<1>1. /\ r.needs \subseteq BaseAt[k] /\ r.ups = ToSet(ups)
      /\ {s.makes : s \in r.ups} = M /\ UNION {{s.makes} \union s.with : s \in r.ups} = O
      /\ \A s \in r.ups : Proper(s)
  <2>1. Script(ups, M, O, BaseAt[k])
    BY DEF Part
  <2> HIDE DEF M, O
  <2> QED
    BY <2>1, RevisionNeeds
<1>2. r.strict = strict
  BY DEF Revision
<1>3. Hypertable \notin TablesOf(Plain[k]) /\ Hypertable \notin TablesOf(WithKey[k])
      /\ Hypertable \notin KeysOf(WithKey[k])
  BY DEF Hypertable, TablesOf, KeysOf, Table, Key
<1>4. M \ {Hypertable} = MakesAt(k) /\ O \ {Hypertable} = New(k) /\ (strict => Hypertable \notin M)
  BY <1>3 DEF MakesAt, New
<1>5. r.strict => \A s \in r.ups : s.makes # Hypertable
  <2> HIDE DEF M, O, r
  <2> QED
    BY <1>1, <1>2, <1>4
<1> HIDE DEF M, O
<1> QED
  BY <1>1, <1>4, <1>5 DEF Applies

\* The columns that have an index.
LEMMA ColumnsIn ==
    /\ Column("replay_runs", "config_hash") \in ReplaySet
    /\ Column("scheduler_jobs", "lease_expires_at") \in LeaseSet
    /\ Column("scheduler_jobs", "lease_owner") \in LeaseSet
    /\ Column("provider_capability_checks", "operator_review_status") \in ReviewSet
BY DEF ReplaySet, LeaseSet, ReviewSet, ColumnsOf, ToSet, ReplayColumns, LeaseColumns, ReviewColumns

\* No column and no index is the hypertable.
LEMMA HypertableApart ==
    /\ Hypertable \notin ReplaySet /\ Hypertable \notin LeaseSet /\ Hypertable \notin ReviewSet
    /\ \A k \in 1..12 : Hypertable \notin IndexesAt[k]
<1>1. \A t, N : Hypertable \notin ColumnsOf(t, N)
  BY DEF Hypertable, ColumnsOf, Column
<1>2. \A t, i : Hypertable # Indexed(t, i)
  BY DEF Hypertable, Indexed
<1>3. \A k \in 1..12 : Hypertable \notin IndexesAt[k]
  BY <1>2 DEF IndexesAt
<1> QED
  BY <1>1, <1>3 DEF ReplaySet, LeaseSet, ReviewSet

\* Revision 0001.
LEMMA Applies1 == Applies(1)
<1> DEFINE seq == <<Index("bars", "lookup", {}), Index("features", "lookup", {}),
                    Index("live_signals", "latest", {})>>
           A == {"symbols"} \union {"validation_reports", "validation_windows"}
           B == {"model_runs", "model_artifacts"}
                \union {"live_signals", "closed_signals", "scanner_runs", "provider_requests",
                         "exports"}
           C == {"bars", "features", "candidate_signals", "labels"}
           D == {"active_models"} \union {"daily_reviews"}
           I == {Table("bars"), Table("features"), Table("live_signals")}
<1>1. Part(Baseline1, A, C, {}, {}, {}) /\ Part(Baseline2, B, D, {}, {}, {})
  BY MarketPart, ModelsPart
<1>2. Part(seq, {}, {}, IndexesAt[1], {}, I)
  BY Indexes1
<1>3. I \subseteq TablesOf(A \union B) \union TablesOf(C \union D)
  BY DEF TablesOf
<1>4. A \union B = Plain[1] /\ C \union D = WithKey[1] /\ BaseAt[1] = {} /\ ColumnsAt[1] = {}
  BY DEF Plain, WithKey, BaseAt, ColumnsAt
<1> HIDE DEF A, B, C, D, I, seq
<1>5. Part(Baseline1 \o Baseline2, A \union B, C \union D, {}, {}, {})
  BY <1>1, PartConcat
<1>6. Part(Baseline1 \o Baseline2 \o seq, A \union B, C \union D, IndexesAt[1], {}, {})
  <2>1. I \subseteq {} \union TablesOf(A \union B) \union TablesOf(C \union D) \union {}
    BY <1>3
  <2>2. Part((Baseline1 \o Baseline2) \o seq, (A \union B) \union {}, (C \union D) \union {},
             {} \union IndexesAt[1], {} \union {}, {})
    BY <1>2, <1>5, <2>1, PartConcat
  <2> QED
    BY <2>2
<1>7. Revisions[1] = Revision(TRUE, Baseline1 \o Baseline2 \o seq)
  BY DEF Revisions, Initial, seq
<1>8. Hypertable \notin IndexesAt[1]
  BY HypertableApart
<1> QED
  BY <1>4, <1>6, <1>7, <1>8, FromPart

\* Revision 0002.
LEMMA Applies2 == Applies(2)
<1>1. Part(<<Index("features", "lookup_version", {}), Index("labels",
         "symbol_ts_setup_side_outcome", {}),
      Index("live_signals", "ticker_ts_status", {}),
      Index("validation_reports", "model_purpose_created", {}),
      Index("scanner_runs", "started", {})>>, Plain[2], WithKey[2], IndexesAt[2], {}, BaseAt[2])
  BY Indexes2 DEF Plain, WithKey, BaseAt
<1>2. Hypertable \notin IndexesAt[2] /\ ColumnsAt[2] = {}
  BY HypertableApart DEF ColumnsAt
<1> QED
  BY <1>1, <1>2, FromPart DEF Revisions, Phase5Indexes

\* Revision 0003.
LEMMA Applies3 == Applies(3)
<1> DEFINE ts == Tables(<<"replay_runs", "simulated_trades">>)
           ks == Keyed(<<"pipeline_build_windows">>)
           seq == <<Index("candidate_signals", "replay_lookup", {}),
                    Index("live_signals", "symbol_ts_status_model", {})>>
<1>1. Part(ts, Plain[3], {}, {}, {}, BaseAt[3])
  <2>1. {"replay_runs", "simulated_trades"} \intersect KeyedTables = {}
    BY DEF KeyedTables
  <2>2. Part(ts, {"replay_runs", "simulated_trades"}, {}, {}, {}, {})
    BY <2>1, Listed, TablesPart
  <2>3. Plain[3] = {"replay_runs", "simulated_trades"}
    BY DEF Plain
  <2> QED
    BY <2>2, <2>3, PartMore
<1>2. Part(ks, {}, WithKey[3], {}, {}, {})
  BY Listed, KeyedPart DEF WithKey
<1>3. Part(seq, {}, {}, IndexesAt[3], {}, BaseAt[3])
  BY Indexes3 DEF BaseAt
<1>4. Revisions[3] = Revision(FALSE, ts \o ks \o seq)
  BY DEF Revisions, Phase6Replay
<1> HIDE DEF ts, ks, seq
<1>5. Part(ts \o ks, Plain[3], WithKey[3], {}, {}, BaseAt[3])
  BY <1>1, <1>2, PartConcat
<1>6. Part(ts \o ks \o seq, Plain[3], WithKey[3], IndexesAt[3], {}, BaseAt[3])
  BY <1>3, <1>5, PartConcat
<1>7. Hypertable \notin IndexesAt[3] /\ ColumnsAt[3] = {}
  BY HypertableApart DEF ColumnsAt
<1> QED
  BY <1>4, <1>6, <1>7, FromPart

\* Revision 0004.
LEMMA Applies4 == Applies(4)
<1> DEFINE cs == Columns("replay_runs", ReplayColumns)
           seq == <<Index("replay_runs", "config_hash", {"config_hash"})>>
           N == {"replay_sensitivity_runs", "replay_sensitivity_scenarios", "backtest_comparisons"}
           ts == Tables(<<"replay_sensitivity_runs", "replay_sensitivity_scenarios",
                    "backtest_comparisons">>)
           I == {Table("replay_runs"), Column("replay_runs", "config_hash")}
<1>1. /\ {Table("replay_runs")} \subseteq BaseAt[4] /\ {Table("bars")} \subseteq BaseAt[4]
      /\ I \subseteq BaseAt[4] \union ReplaySet
  BY ColumnsIn DEF BaseAt
<1>2. Part(cs, {}, {}, ReplaySet, {}, BaseAt[4])
  <2>1. Part(cs, {}, {}, ReplaySet, {}, {Table("replay_runs")})
    BY AlteredPart
  <2> QED
    BY <1>1, <2>1, PartMore
<1>3. Part(seq, {}, {}, IndexesAt[4], {}, I)
  BY Indexes4
<1>4. Part(ts, N, {}, {}, {}, {})
  <2>1. N \intersect KeyedTables = {}
    BY DEF KeyedTables
  <2> QED
    BY <2>1, Listed, TablesPart
<1>5. Plain[4] = N /\ WithKey[4] = {} /\ ColumnsAt[4] = ReplaySet
  BY DEF Plain, WithKey, ColumnsAt
<1>6. Revisions[4] = Revision(FALSE, cs \o seq \o ts \o <<Hyper>>)
  BY DEF Revisions, Phase7Audit
<1> HIDE DEF cs, seq, ts, N, I
<1>7. Part(cs \o seq, {}, {}, ReplaySet \union IndexesAt[4], {}, BaseAt[4])
  BY <1>1, <1>2, <1>3, PartConcat
<1>8. Part(cs \o seq \o ts, N, {}, ReplaySet \union IndexesAt[4], {}, BaseAt[4])
  BY <1>4, <1>7, PartConcat
<1>9. Part(cs \o seq \o ts \o <<Hyper>>, N, {},
         ReplaySet \union IndexesAt[4] \union {Hypertable}, {},
           BaseAt[4])
  BY <1>1, <1>8, HypertablePart, PartConcat
<1>10. (ReplaySet \union IndexesAt[4] \union {Hypertable}) \ {Hypertable} = ColumnsAt[4] \union IndexesAt[4]
  <2>1. Hypertable \notin ReplaySet /\ Hypertable \notin IndexesAt[4]
    BY HypertableApart
  <2> QED
    BY <1>5, <2>1
<1> QED
  BY <1>5, <1>6, <1>9, <1>10, FromPart

\* Revision 0005.
LEMMA Applies5 == Applies(5)
<1> DEFINE s1 == Keyed(<<"model_evidence_cells", "candidate_score_audits">>)
           N1 == {"model_evidence_cells", "candidate_score_audits"}
<1>1. Part(s1, {}, N1, {}, {}, {})
  BY Listed, KeyedPart
<1>2. /\ Plain[5] = {} /\ WithKey[5] = N1 /\ BaseAt[5] = {}
      /\ ColumnsAt[5] = {} /\ IndexesAt[5] = {}
  BY DEF Plain, WithKey, BaseAt, ColumnsAt, IndexesAt
<1>3. Revisions[5] = Revision(FALSE, s1)
  BY DEF Revisions, Phase8ReplayAware
<1> HIDE DEF s1, N1
<1> QED
  BY <1>1, <1>2, <1>3, FromPart

\* Revision 0006.
LEMMA Applies6 == Applies(6)
<1> DEFINE s1 == Keyed(<<"model_calibration_audits">>)
           N1 == {"model_calibration_audits"}
           s2 == Tables(<<"model_calibration_bins", "model_comparisons">>)
           N2 == {"model_calibration_bins", "model_comparisons"}
<1>1. Part(s1, {}, N1, {}, {}, {})
  BY Listed, KeyedPart
<1>2. Part(s2, N2, {}, {}, {}, {})
  <2>1. N2 \intersect KeyedTables = {}
    BY DEF KeyedTables
  <2> QED
    BY <2>1, Listed, TablesPart
<1>3. /\ Plain[6] = N2 /\ WithKey[6] = N1 /\ BaseAt[6] = {}
      /\ ColumnsAt[6] = {} /\ IndexesAt[6] = {}
  BY DEF Plain, WithKey, BaseAt, ColumnsAt, IndexesAt
<1>4. Revisions[6] = Revision(FALSE, s1 \o s2)
  BY DEF Revisions, Phase9Calibration
<1> HIDE DEF s1, N1, s2, N2
<1>5. Part(s1 \o s2, N2, N1, {}, {}, {})
  BY <1>1, <1>2, PartConcat
<1> QED
  BY <1>5, <1>3, <1>4, FromPart

\* Revision 0007.
LEMMA Applies7 == Applies(7)
<1> DEFINE s1 == Tables(<<"replay_window_sets", "replay_window_results",
         "model_calibration_drift_reports",
                 "model_calibration_drift_windows", "model_review_reports">>)
           N1 == {"replay_window_sets", "replay_window_results", "model_calibration_drift_reports",
                 "model_calibration_drift_windows", "model_review_reports"}
<1>1. Part(s1, N1, {}, {}, {}, {})
  <2>1. N1 \intersect KeyedTables = {}
    BY DEF KeyedTables
  <2> QED
    BY <2>1, Listed, TablesPart
<1>2. /\ Plain[7] = N1 /\ WithKey[7] = {} /\ BaseAt[7] = {}
      /\ ColumnsAt[7] = {} /\ IndexesAt[7] = {}
  BY DEF Plain, WithKey, BaseAt, ColumnsAt, IndexesAt
<1>3. Revisions[7] = Revision(FALSE, s1)
  BY DEF Revisions, Phase10Review
<1> HIDE DEF s1, N1
<1> QED
  BY <1>1, <1>2, <1>3, FromPart

\* Revision 0008.
LEMMA Applies8 == Applies(8)
<1> DEFINE s1 == Keyed(<<"research_cycles">>)
           N1 == {"research_cycles"}
           s2 == Tables(<<"research_cycle_artifacts", "champion_challenger_comparisons">>)
           N2 == {"research_cycle_artifacts", "champion_challenger_comparisons"}
           s3 == Keyed(<<"model_proposals", "model_decision_ledger">>)
           N3 == {"model_proposals", "model_decision_ledger"}
<1>1. Part(s1, {}, N1, {}, {}, {})
  BY Listed, KeyedPart
<1>2. Part(s2, N2, {}, {}, {}, {})
  <2>1. N2 \intersect KeyedTables = {}
    BY DEF KeyedTables
  <2> QED
    BY <2>1, Listed, TablesPart
<1>3. Part(s3, {}, N3, {}, {}, {})
  BY Listed, KeyedPart
<1>4. /\ Plain[8] = N2 /\ WithKey[8] = N1 \union N3 /\ BaseAt[8] = {}
      /\ ColumnsAt[8] = {} /\ IndexesAt[8] = {}
  BY DEF Plain, WithKey, BaseAt, ColumnsAt, IndexesAt
<1>5. Revisions[8] = Revision(TRUE, s1 \o s2 \o s3)
  BY DEF Revisions, Phase11Governance
<1> HIDE DEF s1, N1, s2, N2, s3, N3
<1>6. Part(s1 \o s2, N2, N1, {}, {}, {})
  BY <1>1, <1>2, PartConcat
<1>7. Part(s1 \o s2 \o s3, N2, N1 \union N3, {}, {}, {})
  BY <1>6, <1>3, PartConcat
<1> QED
  BY <1>7, <1>4, <1>5, FromPart

\* Revision 0009.
LEMMA Applies9 == Applies(9)
<1> DEFINE s1 == Keyed(<<"scheduler_jobs", "scheduler_job_events">>)
           N1 == {"scheduler_jobs", "scheduler_job_events"}
<1>1. Part(s1, {}, N1, {}, {}, {})
  BY Listed, KeyedPart
<1>2. /\ Plain[9] = {} /\ WithKey[9] = N1 /\ BaseAt[9] = {}
      /\ ColumnsAt[9] = {} /\ IndexesAt[9] = {}
  BY DEF Plain, WithKey, BaseAt, ColumnsAt, IndexesAt
<1>3. Revisions[9] = Revision(TRUE, s1)
  BY DEF Revisions, Phase13Scheduler
<1> HIDE DEF s1, N1
<1> QED
  BY <1>1, <1>2, <1>3, FromPart

\* Revision 0010.
LEMMA Applies10 == Applies(10)
<1> DEFINE cs == Columns("scheduler_jobs", LeaseColumns)
           seq == <<Index("scheduler_jobs", "lease_expires", {"lease_expires_at"}),
                    Index("scheduler_jobs", "lease_owner", {"lease_owner"})>>
           I == {Table("scheduler_jobs"), Column("scheduler_jobs", "lease_expires_at"),
                 Column("scheduler_jobs", "lease_owner")}
<1>1. BaseAt[10] = {Table("scheduler_jobs")} /\ I \subseteq BaseAt[10] \union LeaseSet
  BY ColumnsIn DEF BaseAt
<1>2. Part(cs, {}, {}, LeaseSet, {}, BaseAt[10])
  BY <1>1, AlteredPart
<1>3. Part(seq, {}, {}, IndexesAt[10], {}, I)
  BY Indexes10
<1>4. Plain[10] = {} /\ WithKey[10] = {} /\ ColumnsAt[10] = LeaseSet
  BY DEF Plain, WithKey, ColumnsAt
<1>5. Revisions[10] = Revision(TRUE, cs \o seq)
  BY DEF Revisions, Phase14Worker
<1> HIDE DEF cs, seq, I
<1>6. Part(cs \o seq, {}, {}, LeaseSet \union IndexesAt[10], {}, BaseAt[10])
  BY <1>1, <1>2, <1>3, PartConcat
<1>7. Hypertable \notin LeaseSet /\ Hypertable \notin IndexesAt[10]
  BY HypertableApart
<1> QED
  BY <1>4, <1>5, <1>6, <1>7, FromPart

\* Revision 0011.
LEMMA Applies11 == Applies(11)
<1> DEFINE s1 == Keyed(<<"provider_capability_checks", "ingestion_runs">>)
           N1 == {"provider_capability_checks", "ingestion_runs"}
<1>1. Part(s1, {}, N1, {}, {}, {})
  BY Listed, KeyedPart
<1>2. /\ Plain[11] = {} /\ WithKey[11] = N1 /\ BaseAt[11] = {}
      /\ ColumnsAt[11] = {} /\ IndexesAt[11] = {}
  BY DEF Plain, WithKey, BaseAt, ColumnsAt, IndexesAt
<1>3. Revisions[11] = Revision(TRUE, s1)
  BY DEF Revisions, Phase15Provider
<1> HIDE DEF s1, N1
<1> QED
  BY <1>1, <1>2, <1>3, FromPart

\* Revision 0012.
LEMMA Applies12 == Applies(12)
<1> DEFINE cs == Columns("provider_capability_checks", ReviewColumns)
           seq == <<Index("provider_capability_checks", "review", {"operator_review_status"})>>
           N == {"quote_snapshots", "data_freshness_reports"}
           ks == Keyed(<<"quote_snapshots", "data_freshness_reports">>)
           I == {Table("provider_capability_checks"),
                 Column("provider_capability_checks", "operator_review_status")}
<1>1. BaseAt[12] = {Table("provider_capability_checks")} /\ I \subseteq BaseAt[12] \union ReviewSet
  BY ColumnsIn DEF BaseAt
<1>2. Part(cs, {}, {}, ReviewSet, {}, BaseAt[12])
  BY <1>1, AlteredPart
<1>3. Part(seq, {}, {}, IndexesAt[12], {}, I)
  BY Indexes12
<1>4. Part(ks, {}, N, {}, {}, {})
  BY Listed, KeyedPart
<1>5. Plain[12] = {} /\ WithKey[12] = N /\ ColumnsAt[12] = ReviewSet
  BY DEF Plain, WithKey, ColumnsAt
<1>6. Revisions[12] = Revision(TRUE, cs \o seq \o ks)
  BY DEF Revisions, Phase16Freshness
<1> HIDE DEF cs, seq, ks, N, I
<1>7. Part(cs \o seq, {}, {}, ReviewSet \union IndexesAt[12], {}, BaseAt[12])
  BY <1>1, <1>2, <1>3, PartConcat
<1>8. Part(cs \o seq \o ks, {}, N, ReviewSet \union IndexesAt[12], {}, BaseAt[12])
  BY <1>4, <1>7, PartConcat
<1>9. Hypertable \notin ReviewSet /\ Hypertable \notin IndexesAt[12]
  BY HypertableApart
<1> QED
  BY <1>5, <1>6, <1>8, <1>9, FromPart

\* Every revision makes what is listed for it, from what it is listed to build on.
LEMMA RevisionsApply == \A k \in 1..12 : Applies(k)
<1> SUFFICES ASSUME NEW k \in 1..12 PROVE Applies(k)
  OBVIOUS
<1>1. \/ k = 1 \/ k = 2 \/ k = 3 \/ k = 4 \/ k = 5 \/ k = 6 \/ k = 7 \/ k = 8 \/ k = 9
      \/ k = 10 \/ k = 11 \/ k = 12
  OBVIOUS
<1> QED
  BY <1>1, Applies1, Applies2, Applies3, Applies4, Applies5, Applies6, Applies7, Applies8,
     Applies9, Applies10, Applies11, Applies12

-----------------------------------------------------------------------------
(* What the metadata and the startup script make. *)

AllPlain == UNION {Plain[k] : k \in 1..12}
AllColumns == ReplaySet \union LeaseSet \union ReviewSet
AllIndexes == UNION {IndexesAt[k] : k \in 1..12}

\* Every table, key and column.
Whole == TablesOf(AllPlain) \union TablesOf(KeyedTables) \union AllColumns \union KeysOf(KeyedTables)

\* All tables without a key.
LEMMA AllPlainIs ==
    AllPlain = Plain[1] \union Plain[3] \union Plain[4] \union Plain[6] \union Plain[7] \union Plain[8]
<1>1. /\ Plain[2] = {} /\ Plain[5] = {} /\ Plain[9] = {} /\ Plain[10] = {} /\ Plain[11] = {}
      /\ Plain[12] = {}
  BY DEF Plain
<1>2. \A k \in 1..12 : \/ k = 1 \/ k = 2 \/ k = 3 \/ k = 4 \/ k = 5 \/ k = 6 \/ k = 7 \/ k = 8
                       \/ k = 9 \/ k = 10 \/ k = 11 \/ k = 12
  OBVIOUS
<1>3. 1 \in 1..12 /\ 3 \in 1..12 /\ 4 \in 1..12 /\ 6 \in 1..12 /\ 7 \in 1..12 /\ 8 \in 1..12
  OBVIOUS
<1> QED
  BY <1>1, <1>2, <1>3 DEF AllPlain

\* All tables with a key.
LEMMA AllKeyedIs ==
    /\ KeyedTables = UNION {WithKey[k] : k \in 1..12}
    /\ KeyedTables = WithKey[1] \union WithKey[3] \union WithKey[5] \union WithKey[6] \union WithKey[8]
                     \union WithKey[9] \union WithKey[11] \union WithKey[12]
<1>1. /\ WithKey[2] = {} /\ WithKey[4] = {} /\ WithKey[7] = {} /\ WithKey[10] = {}
  BY DEF WithKey
<1>2. \A k \in 1..12 : \/ k = 1 \/ k = 2 \/ k = 3 \/ k = 4 \/ k = 5 \/ k = 6 \/ k = 7 \/ k = 8
                       \/ k = 9 \/ k = 10 \/ k = 11 \/ k = 12
  OBVIOUS
<1>3. /\ 1 \in 1..12 /\ 3 \in 1..12 /\ 5 \in 1..12 /\ 6 \in 1..12 /\ 8 \in 1..12 /\ 9 \in 1..12
      /\ 11 \in 1..12 /\ 12 \in 1..12
  OBVIOUS
<1>4. UNION {WithKey[k] : k \in 1..12} =
          WithKey[1] \union WithKey[3] \union WithKey[5] \union WithKey[6] \union WithKey[8]
          \union WithKey[9] \union WithKey[11] \union WithKey[12]
  BY <1>1, <1>2, <1>3
<1>5. KeyedTables = WithKey[1] \union WithKey[3] \union WithKey[5] \union WithKey[6] \union WithKey[8]
                     \union WithKey[9] \union WithKey[11] \union WithKey[12]
  BY DEF KeyedTables, WithKey
<1> QED
  BY <1>4, <1>5

\* All columns that came later.
LEMMA AllColumnsIs == AllColumns = UNION {ColumnsAt[k] : k \in 1..12}
<1>1. /\ ColumnsAt[1] = {} /\ ColumnsAt[2] = {} /\ ColumnsAt[3] = {} /\ ColumnsAt[4] = ReplaySet
      /\ ColumnsAt[5] = {} /\ ColumnsAt[6] = {} /\ ColumnsAt[7] = {} /\ ColumnsAt[8] = {}
      /\ ColumnsAt[9] = {} /\ ColumnsAt[10] = LeaseSet /\ ColumnsAt[11] = {} /\ ColumnsAt[12] = ReviewSet
  BY DEF ColumnsAt
<1>2. \A k \in 1..12 : \/ k = 1 \/ k = 2 \/ k = 3 \/ k = 4 \/ k = 5 \/ k = 6 \/ k = 7 \/ k = 8
                       \/ k = 9 \/ k = 10 \/ k = 11 \/ k = 12
  OBVIOUS
<1>3. 4 \in 1..12 /\ 10 \in 1..12 /\ 12 \in 1..12
  OBVIOUS
<1> QED
  BY <1>1, <1>2, <1>3 DEF AllColumns

\* The schema at revision n.
Level(n) == UNION {New(k) : k \in 1..n}

\* What the head revision has.
LEMMA HeadLevel == Level(12) = Whole \union AllIndexes
<1>1. ASSUME NEW k \in 1..12 PROVE New(k) \subseteq Whole \union AllIndexes
  <2>1. Plain[k] \subseteq AllPlain /\ WithKey[k] \subseteq KeyedTables
        /\ ColumnsAt[k] \subseteq AllColumns /\ IndexesAt[k] \subseteq AllIndexes
    BY AllKeyedIs, AllColumnsIs DEF AllPlain, AllIndexes
  <2> QED
    BY <2>1 DEF New, MakesAt, Whole, TablesOf, KeysOf
<1>2. TablesOf(AllPlain) \subseteq Level(12)
  BY DEF TablesOf, AllPlain, Level, New, MakesAt
<1>3. TablesOf(KeyedTables) \subseteq Level(12) /\ KeysOf(KeyedTables) \subseteq Level(12)
  <2> SUFFICES ASSUME NEW t \in KeyedTables PROVE Table(t) \in Level(12) /\ Key(t) \in Level(12)
    BY DEF TablesOf, KeysOf
  <2>1. PICK k \in 1..12 : t \in WithKey[k]
    BY AllKeyedIs
  <2> QED
    BY <2>1 DEF TablesOf, KeysOf, Level, New, MakesAt
<1>4. AllColumns \subseteq Level(12) /\ AllIndexes \subseteq Level(12)
  BY AllColumnsIs DEF AllIndexes, Level, New, MakesAt
<1> QED
  BY <1>1, <1>2, <1>3, <1>4 DEF Level, Whole

\* The tables of each group of the metadata, without and with a key.
PM == {"symbols"} \union {"validation_reports", "validation_windows"}
KM == {"bars", "features", "candidate_signals", "labels"}
PO == {"model_runs", "model_artifacts"} \union {"model_calibration_bins", "model_comparisons"}
KO == {"model_evidence_cells", "candidate_score_audits", "model_calibration_audits"}
PV == {"replay_window_sets", "replay_window_results", "model_calibration_drift_reports",
      "model_calibration_drift_windows", "model_review_reports"}
KV == {}
PG == {"research_cycle_artifacts", "champion_challenger_comparisons"}
KG == {"research_cycles"} \union {"model_proposals", "model_decision_ledger"}
PR == {"live_signals", "closed_signals", "scanner_runs", "provider_requests"}
KR == {"scheduler_jobs"} \union {"scheduler_job_events", "active_models"}
PD == {"exports"}
KD == {"provider_capability_checks"} \union {"ingestion_runs", "quote_snapshots",
      "data_freshness_reports"}
PY == {"replay_runs"} \union {"replay_sensitivity_runs", "replay_sensitivity_scenarios",
      "backtest_comparisons", "simulated_trades"}
KY == {"pipeline_build_windows", "daily_reviews"}

\* The groups of the metadata have the tables of the revisions.
LEMMA GroupsAre ==
    /\ PM \union PO \union PV \union PG \union PR \union PD \union PY = AllPlain
    /\ KM \union KO \union KV \union KG \union KR \union KD \union KY = KeyedTables
<1>1. PM \union PO \union PV \union PG \union PR \union PD \union PY = AllPlain
  BY AllPlainIs DEF Plain, PM, PO, PV, PG, PR, PD, PY
<1>2. KM \union KO \union KV \union KG \union KR \union KD \union KY = KeyedTables
  BY DEF KeyedTables, KM, KO, KV, KG, KR, KD, KY
<1> QED
  BY <1>1, <1>2

\* What the metadata has.
LEMMA MetadataPart == Part(Metadata, AllPlain, KeyedTables,
         LeaseSet \union ReviewSet \union ReplaySet, {}, {})
<1>1. Part(MetadataMarket, PM, KM, {}, {}, {})
  BY MarketPart DEF PM, KM, MetadataMarket, Baseline1
<1>2. Part(MetadataModels, PO, KO, {}, {}, {})
  BY MetadataModelsPart DEF PO, KO
<1>3. Part(MetadataReview, PV, KV, {}, {}, {})
  BY MetadataReviewPart DEF PV, KV
<1>4. Part(MetadataGovernance, PG, KG, {}, {}, {})
  BY MetadataGovernancePart DEF PG, KG
<1>5. Part(MetadataRuntime, PR, KR, LeaseSet, {}, {})
  BY MetadataRuntimePart DEF PR, KR
<1>6. Part(MetadataProvider, PD, KD, ReviewSet, {}, {})
  BY MetadataProviderPart DEF PD, KD
<1>7. Part(MetadataReplay, PY, KY, ReplaySet, {}, {})
  BY MetadataReplayPart DEF PY, KY
<1>8. Part(MetadataMarket \o MetadataModels, PM \union PO, KM \union KO, {}, {}, {})
  BY <1>1, <1>2, PartConcat
<1>9. Part(MetadataMarket \o MetadataModels \o MetadataReview, PM \union PO \union PV,
           KM \union KO \union KV, {}, {}, {})
  BY <1>3, <1>8, PartConcat
<1>10. Part(MetadataMarket \o MetadataModels \o MetadataReview \o MetadataGovernance,
           PM \union PO \union PV \union PG, KM \union KO \union KV \union KG, {}, {}, {})
  BY <1>4, <1>9, PartConcat
<1>11. Part(MetadataMarket \o MetadataModels \o MetadataReview \o MetadataGovernance \o MetadataRuntime,
           PM \union PO \union PV \union PG \union PR, KM \union KO \union KV \union KG \union KR,
           LeaseSet, {}, {})
  BY <1>5, <1>10, PartConcat
<1>12. Part(MetadataMarket \o MetadataModels \o MetadataReview \o MetadataGovernance \o MetadataRuntime
                \o MetadataProvider,
           PM \union PO \union PV \union PG \union PR \union PD,
           KM \union KO \union KV \union KG \union KR \union KD, LeaseSet \union ReviewSet, {}, {})
  BY <1>6, <1>11, PartConcat
<1>13. Part(MetadataMarket \o MetadataModels \o MetadataReview \o MetadataGovernance \o MetadataRuntime
                \o MetadataProvider \o MetadataReplay,
           PM \union PO \union PV \union PG \union PR \union PD \union PY,
           KM \union KO \union KV \union KG \union KR \union KD \union KY,
           LeaseSet \union ReviewSet \union ReplaySet, {}, {})
  BY <1>7, <1>12, PartConcat
<1> QED
  BY <1>13, GroupsAre DEF Metadata

\* The groups of the startup script that differ from those of the metadata: the runtime,
LEMMA RuntimePart == Part(ScriptRuntime, PR, KR, {}, LeaseSet, {})
<1> DEFINE s == <<Create("scheduler_jobs",
         {Key("scheduler_jobs")} \union Objects(Columns("scheduler_jobs", LeaseColumns)))>>
           N2 == {"scheduler_job_events", "active_models"}
           ks == Keyed(<<"scheduler_job_events", "active_models">>)
           ts == Tables(<<"live_signals", "closed_signals", "scanner_runs", "provider_requests">>)
<1>1. Part(s, {}, {"scheduler_jobs"}, {}, LeaseSet, {})
  BY WholeTables
<1>2. Part(ks, {}, N2, {}, {}, {})
  BY Listed, KeyedPart
<1>3. Part(ts, PR, {}, {}, {}, {})
  <2>1. PR \intersect KeyedTables = {}
    BY DEF KeyedTables, PR
  <2>2. Enumerates(<<"live_signals", "closed_signals", "scanner_runs", "provider_requests">>, PR)
    BY Listed DEF PR
  <2> QED
    BY <2>1, <2>2, TablesPart
<1>4. KR = {"scheduler_jobs"} \union N2 /\ ScriptRuntime = s \o ks \o ts
  BY DEF KR, ScriptRuntime
<1> HIDE DEF s, N2, ks, ts
<1>5. Part(s \o ks, {}, KR, {}, LeaseSet, {})
  <2>1. Part(s \o ks, {} \union {}, {"scheduler_jobs"} \union N2, {} \union {},
           LeaseSet \union {}, {})
    BY <1>1, <1>2, PartConcat
  <2> QED
    BY <1>4, <2>1
<1>6. Part(s \o ks \o ts, PR, KR, {}, LeaseSet, {})
  BY <1>3, <1>5, PartConcat
<1> QED
  BY <1>4, <1>6

\* the provider,
LEMMA ProviderPart == Part(ScriptProvider, PD, KD, {}, ReviewSet, {})
<1> DEFINE s == <<Create("provider_capability_checks", {Key("provider_capability_checks")}
                      \union Objects(Columns("provider_capability_checks", ReviewColumns)))>>
           N2 == {"ingestion_runs", "quote_snapshots", "data_freshness_reports"}
           ks == Keyed(<<"ingestion_runs", "quote_snapshots", "data_freshness_reports">>)
           ts == Tables(<<"exports">>)
<1>1. Part(s, {}, {"provider_capability_checks"}, {}, ReviewSet, {})
  BY WholeTables
<1>2. Part(ks, {}, N2, {}, {}, {})
  BY Listed, KeyedPart
<1>3. Part(ts, PD, {}, {}, {}, {})
  <2>1. PD \intersect KeyedTables = {}
    BY DEF KeyedTables, PD
  <2>2. Enumerates(<<"exports">>, PD)
    BY Listed DEF PD
  <2> QED
    BY <2>1, <2>2, TablesPart
<1>4. KD = {"provider_capability_checks"} \union N2 /\ ScriptProvider = s \o ks \o ts
  BY DEF KD, ScriptProvider
<1> HIDE DEF s, N2, ks, ts
<1>5. Part(s \o ks, {}, KD, {}, ReviewSet, {})
  <2>1. Part(s \o ks, {} \union {}, {"provider_capability_checks"} \union N2, {} \union {},
             ReviewSet \union {}, {})
    BY <1>1, <1>2, PartConcat
  <2> QED
    BY <1>4, <2>1
<1>6. Part(s \o ks \o ts, PD, KD, {}, ReviewSet, {})
  BY <1>3, <1>5, PartConcat
<1> QED
  BY <1>4, <1>6

\* The tables of ScriptReplay and ScriptReviews are those of MetadataReplay.
LEMMA ReplayPart ==
    Part(ScriptReplay, PY, {}, IndexesAt[3], ReplaySet, {Table("candidate_signals"),
             Table("live_signals")})
<1> DEFINE s == <<Create("replay_runs", Objects(Columns("replay_runs", ReplayColumns)))>>
           N2 == {"replay_sensitivity_runs", "replay_sensitivity_scenarios", "backtest_comparisons",
                  "simulated_trades"}
           ts == Tables(<<"replay_sensitivity_runs", "replay_sensitivity_scenarios",
                          "backtest_comparisons", "simulated_trades">>)
           seq == <<Index("candidate_signals", "replay_lookup", {}),
                    Index("live_signals", "symbol_ts_status_model", {})>>
           I == {Table("candidate_signals"), Table("live_signals")}
<1>1. Part(s, {"replay_runs"}, {}, {}, ReplaySet, I)
  BY WholeTables, PartMore
<1>2. Part(ts, N2, {}, {}, {}, {})
  <2>1. N2 \intersect KeyedTables = {}
    BY DEF KeyedTables
  <2> QED
    BY <2>1, Listed, TablesPart
<1>3. Part(seq, {}, {}, IndexesAt[3], {}, I)
  BY Indexes3
<1>4. PY = {"replay_runs"} \union N2 /\ ScriptReplay = s \o ts \o seq
  BY DEF PY, ScriptReplay
<1> HIDE DEF s, N2, ts, seq, I
<1>5. Part(s \o ts, PY, {}, {}, ReplaySet, I)
  <2>1. Part(s \o ts, {"replay_runs"} \union N2, {} \union {}, {} \union {}, ReplaySet \union {}, I)
    BY <1>1, <1>2, PartConcat
  <2> QED
    BY <1>4, <2>1
<1>6. Part(s \o ts \o seq, PY, {}, IndexesAt[3], ReplaySet, I)
  BY <1>3, <1>5, PartConcat
<1> QED
  BY <1>4, <1>6 DEF I

\* the reviews,
LEMMA ReviewsPart == Part(ScriptReviews, {}, KY, {}, {}, {})
<1>1. Enumerates(<<"pipeline_build_windows", "daily_reviews">>, KY)
  BY Listed DEF KY
<1> QED
  BY <1>1, KeyedPart DEF ScriptReviews

\* and the columns added to files that lack them.
LEMMA AlterationsPart ==
    Part(Alterations, {}, {}, AllColumns, {},
         {Table("replay_runs"), Table("scheduler_jobs"), Table("provider_capability_checks")})
<1> DEFINE base == {Table("replay_runs"), Table("scheduler_jobs"),
         Table("provider_capability_checks")}
           s1 == Columns("replay_runs", ReplayColumns)
           s2 == Columns("scheduler_jobs", LeaseColumns)
           s3 == Columns("provider_capability_checks", ReviewColumns)
<1>1. Part(s1, {}, {}, ReplaySet, {}, base)
  BY AlteredPart, PartMore
<1>2. Part(s2, {}, {}, LeaseSet, {}, {Table("scheduler_jobs")})
      /\ Part(s3, {}, {}, ReviewSet, {}, {Table("provider_capability_checks")})
  BY AlteredPart
<1>3. {Table("scheduler_jobs")} \subseteq base /\ {Table("provider_capability_checks")} \subseteq base
  OBVIOUS
<1>4. Alterations = s1 \o s2 \o s3
  BY DEF Alterations
<1> HIDE DEF base, s1, s2, s3
<1>5. Part(s1 \o s2, {}, {}, ReplaySet \union LeaseSet, {}, base)
  BY <1>1, <1>2, <1>3, PartConcat
<1>6. Part(s1 \o s2 \o s3, {}, {}, ReplaySet \union LeaseSet \union ReviewSet, {}, base)
  BY <1>2, <1>3, <1>5, PartConcat
<1> QED
  BY <1>4, <1>6 DEF base, AllColumns

Late == IndexesAt[4] \union IndexesAt[10] \union IndexesAt[12]

\* What the startup script makes, from nothing.
LEMMA InitializePart ==
    Part(Initialize, AllPlain, KeyedTables, IndexesAt[3] \union AllColumns \union Late,
         LeaseSet \union ReviewSet \union ReplaySet, {})
<1> DEFINE I3 == {Table("candidate_signals"), Table("live_signals")}
           I4 == {Table("replay_runs"), Table("scheduler_jobs"),
                    Table("provider_capability_checks")}
           I5 == {Table("replay_runs"), Column("replay_runs", "config_hash"),
                    Table("scheduler_jobs"),
                  Column("scheduler_jobs", "lease_expires_at"), Column("scheduler_jobs",
                           "lease_owner"),
                  Table("provider_capability_checks"),
                  Column("provider_capability_checks", "operator_review_status")}
           P6 == PM \union PO \union PV \union PG \union PR \union PD
           K6 == KM \union KO \union KV \union KG \union KR \union KD
<1>1. Part(ScriptMarket, PM, KM, {}, {}, {})
  BY MarketPart DEF PM, KM, ScriptMarket, Baseline1
<1>2. Part(ScriptModels, PO, KO, {}, {}, {})
  BY MetadataModelsPart DEF PO, KO, ScriptModels, MetadataModels
<1>3. Part(ScriptReview, PV, KV, {}, {}, {})
  BY MetadataReviewPart DEF PV, KV, ScriptReview, MetadataReview
<1>4. Part(ScriptGovernance, PG, KG, {}, {}, {})
  BY MetadataGovernancePart DEF PG, KG, ScriptGovernance, MetadataGovernance
<1>5. Part(ScriptMarket \o ScriptModels, PM \union PO, KM \union KO, {}, {}, {})
  BY <1>1, <1>2, PartConcat
<1>6. Part(ScriptMarket \o ScriptModels \o ScriptReview, PM \union PO \union PV,
           KM \union KO \union KV, {}, {}, {})
  BY <1>3, <1>5, PartConcat
<1>7. Part(ScriptMarket \o ScriptModels \o ScriptReview \o ScriptGovernance,
           PM \union PO \union PV \union PG, KM \union KO \union KV \union KG, {}, {}, {})
  BY <1>4, <1>6, PartConcat
<1>8. Part(ScriptMarket \o ScriptModels \o ScriptReview \o ScriptGovernance \o ScriptRuntime,
           PM \union PO \union PV \union PG \union PR, KM \union KO \union KV \union KG \union KR,
           {}, LeaseSet, {})
  BY <1>7, RuntimePart, PartConcat
<1>9. Part(ScriptMarket \o ScriptModels \o ScriptReview \o ScriptGovernance \o ScriptRuntime
               \o ScriptProvider, P6, K6, {}, LeaseSet \union ReviewSet, {})
  BY <1>8, ProviderPart, PartConcat
<1>10. I3 \subseteq {} \union TablesOf(P6) \union TablesOf(K6) \union {}
  BY DEF TablesOf, PR, KM
<1>11. /\ P6 \union PY = AllPlain /\ K6 \union KY = KeyedTables
  BY GroupsAre
<1>12. I4 \subseteq TablesOf(AllPlain) \union TablesOf(KeyedTables)
  <2>1. "replay_runs" \in AllPlain /\ "scheduler_jobs" \in KeyedTables
        /\ "provider_capability_checks" \in KeyedTables
    BY GroupsAre DEF PY, KeyedTables
  <2> QED
    BY <2>1 DEF TablesOf
<1>13. I5 \subseteq I4 \union AllColumns
  BY ColumnsIn DEF AllColumns
<1> DEFINE s6 == ScriptMarket \o ScriptModels \o ScriptReview \o ScriptGovernance \o ScriptRuntime
                 \o ScriptProvider
<1>14. Initialize = s6 \o ScriptReplay \o ScriptReviews \o Alterations \o LateIndexes
  BY DEF Initialize
<1>15. Part(LateIndexes, {}, {}, Late, {}, I5)
  BY LateIndexesPart DEF LateIndexes, Late
<1>16. Part(ScriptReplay, PY, {}, IndexesAt[3], ReplaySet, I3)
  BY ReplayPart
<1>17. Part(Alterations, {}, {}, AllColumns, {}, I4)
  BY AlterationsPart
<1> HIDE DEF I3, I4, I5, P6, K6, s6
<1>18. Part(s6 \o ScriptReplay, P6 \union PY, K6 \union {}, {} \union IndexesAt[3],
            (LeaseSet \union ReviewSet) \union ReplaySet, {})
  <2>1. Part(s6, P6, K6, {}, LeaseSet \union ReviewSet, {})
    BY <1>9 DEF s6
  <2> QED
    BY <2>1, <1>10, <1>16, PartConcat
<1>19. Part(s6 \o ScriptReplay, AllPlain, K6, IndexesAt[3],
         LeaseSet \union ReviewSet \union ReplaySet, {})
  <2>1. K6 \union {} = K6 /\ {} \union IndexesAt[3] = IndexesAt[3]
    OBVIOUS
  <2> QED
    BY <1>11, <1>18, <2>1
<1>20. Part(s6 \o ScriptReplay \o ScriptReviews, AllPlain \union {}, K6 \union KY,
            IndexesAt[3] \union {}, LeaseSet \union ReviewSet \union ReplaySet \union {}, {})
  <2>1. {} \subseteq {} \union TablesOf(AllPlain) \union TablesOf(K6) \union IndexesAt[3]
    OBVIOUS
  <2> QED
    BY <1>19, <2>1, ReviewsPart, PartConcat
<1>21. Part(s6 \o ScriptReplay \o ScriptReviews, AllPlain, KeyedTables, IndexesAt[3],
            LeaseSet \union ReviewSet \union ReplaySet, {})
  <2>1. AllPlain \union {} = AllPlain /\ IndexesAt[3] \union {} = IndexesAt[3]
        /\ LeaseSet \union ReviewSet \union ReplaySet \union {} = LeaseSet \union ReviewSet \union ReplaySet
    OBVIOUS
  <2> QED
    BY <1>11, <1>20, <2>1
<1>22. Part(s6 \o ScriptReplay \o ScriptReviews \o Alterations, AllPlain, KeyedTables,
            IndexesAt[3] \union AllColumns, LeaseSet \union ReviewSet \union ReplaySet, {})
  <2>1. I4 \subseteq {} \union TablesOf(AllPlain) \union TablesOf(KeyedTables) \union IndexesAt[3]
    BY <1>12
  <2>2. Part(s6 \o ScriptReplay \o ScriptReviews \o Alterations, AllPlain \union {},
           KeyedTables \union {},
            IndexesAt[3] \union AllColumns, LeaseSet \union ReviewSet \union ReplaySet \union {},
                     {})
    BY <1>17, <1>21, <2>1, PartConcat
  <2>3. AllPlain \union {} = AllPlain /\ KeyedTables \union {} = KeyedTables
        /\ LeaseSet \union ReviewSet \union ReplaySet \union {} = LeaseSet \union ReviewSet \union ReplaySet
    OBVIOUS
  <2> QED
    BY <2>2, <2>3
<1>23. Part(s6 \o ScriptReplay \o ScriptReviews \o Alterations \o LateIndexes, AllPlain,
         KeyedTables,
            IndexesAt[3] \union AllColumns \union Late,
                     LeaseSet \union ReviewSet \union ReplaySet, {})
  <2>1. I5 \subseteq {} \union TablesOf(AllPlain) \union TablesOf(KeyedTables)
                     \union (IndexesAt[3] \union AllColumns)
    BY <1>12, <1>13
  <2>2. Part(s6 \o ScriptReplay \o ScriptReviews \o Alterations \o LateIndexes, AllPlain \union {},
            KeyedTables \union {},
            IndexesAt[3] \union AllColumns \union Late,
                     LeaseSet \union ReviewSet \union ReplaySet \union {}, {})
    BY <1>15, <1>22, <2>1, PartConcat
  <2>3. AllPlain \union {} = AllPlain /\ KeyedTables \union {} = KeyedTables
        /\ LeaseSet \union ReviewSet \union ReplaySet \union {} = LeaseSet \union ReviewSet \union ReplaySet
    OBVIOUS
  <2> QED
    BY <2>2, <2>3
<1> QED
  BY <1>14, <1>23

\* An index of the startup script.
InitIndexes == IndexesAt[3] \union Late

\* What the startup script does: it makes every table and column, with every key, each statement
\* from what the ones before it made.
LEMMA InitializeDoes ==
    /\ Initialize \in Seq(ToSet(Initialize)) /\ Steps \in Nat /\ DOMAIN Initialize = 1..Steps
    /\ \A i \in 1..Steps : Initialize[i].needs \subseteq {Initialize[j].makes : j \in 1..(i - 1)}
    /\ \A i \in 1..Steps : Proper(Initialize[i])
    /\ \A i \in 1..Steps : {Initialize[i].makes} \union Initialize[i].with \subseteq Made
    /\ {Initialize[i].makes : i \in 1..Steps} =
           TablesOf(AllPlain) \union TablesOf(KeyedTables) \union AllColumns \union InitIndexes
    /\ Made = Whole \union InitIndexes
<1> DEFINE E == IndexesAt[3] \union AllColumns \union Late
           F == LeaseSet \union ReviewSet \union ReplaySet
           M == TablesOf(AllPlain) \union TablesOf(KeyedTables) \union E
           O == M \union (KeysOf(KeyedTables) \union F)
<1>1. Script(Initialize, M, O, {})
  BY InitializePart DEF Part
<1>2. M = TablesOf(AllPlain) \union TablesOf(KeyedTables) \union AllColumns \union InitIndexes
      /\ O = Whole \union InitIndexes
  BY DEF InitIndexes, Whole, AllColumns
<1> HIDE DEF M, O
<1>3. Initialize \in Seq(ToSet(Initialize)) /\ Steps \in Nat /\ DOMAIN Initialize = 1..Steps
  BY <1>1, LenProperties DEF Script, Enumerates, Steps
<1>4. Made = O
  BY <1>1 DEF Script, Made, Objects, ObjectsOf
<1>5. \A i \in 1..Steps : Initialize[i] \in ToSet(Initialize)
  BY <1>3 DEF ToSet
<1>6. /\ \A i \in 1..Steps : Initialize[i].needs \subseteq {Initialize[j].makes : j \in 1..(i - 1)}
      /\ \A i \in 1..Steps : Proper(Initialize[i])
  BY <1>1, <1>3, <1>5 DEF Script, Covered
<1>7. \A i \in 1..Steps : {Initialize[i].makes} \union Initialize[i].with \subseteq Made
  BY <1>5 DEF Made, Objects
<1>8. {Initialize[i].makes : i \in 1..Steps} = M
  <2>1. ToSet(Initialize) = {Initialize[i] : i \in 1..Steps}
    BY <1>3 DEF ToSet
  <2>2. {Initialize[i].makes : i \in 1..Steps} = MakesOf(ToSet(Initialize))
    BY <2>1 DEF MakesOf
  <2> QED
    BY <1>1, <2>2 DEF Script
<1> QED
  BY <1>2, <1>3, <1>4, <1>6, <1>7, <1>8

\* The metadata asks for every table, key and column.
LEMMA RequiredIs == Required = Whole
<1> DEFINE E == LeaseSet \union ReviewSet \union ReplaySet
           M == TablesOf(AllPlain) \union TablesOf(KeyedTables) \union E
           O == M \union (KeysOf(KeyedTables) \union {})
<1>1. Script(Metadata, M, O, {})
  BY MetadataPart DEF Part
<1>2. O = Whole
  BY DEF Whole, AllColumns
<1> HIDE DEF M, O
<1> QED
  BY <1>1, <1>2 DEF Script, Required, Objects, ObjectsOf

-----------------------------------------------------------------------------
(* The revision each object came with. *)

Ranked(t, k) == t \in Plain[k] \union WithKey[k]
TableAge(t) ==
    CASE Ranked(t, 1) -> 1 [] Ranked(t, 3) -> 3 [] Ranked(t, 4) -> 4 [] Ranked(t, 5) -> 5
      [] Ranked(t, 6) -> 6 [] Ranked(t, 7) -> 7 [] Ranked(t, 8) -> 8 [] Ranked(t, 9) -> 9
      [] Ranked(t, 11) -> 11 [] Ranked(t, 12) -> 12 [] OTHER -> 0
ColumnAge(t) ==
    CASE t = "replay_runs" -> 4 [] t = "scheduler_jobs" -> 10 [] OTHER -> 12
IndexAge(i) ==
    CASE i \in {"lookup", "latest"} -> 1
      [] i \in {"lookup_version", "symbol_ts_setup_side_outcome", "ticker_ts_status",
                "model_purpose_created", "started"} -> 2
      [] i \in {"replay_lookup", "symbol_ts_status_model"} -> 3
      [] i = "config_hash" -> 4 [] i \in {"lease_expires", "lease_owner"} -> 10 [] OTHER -> 12
Born(o) == CASE o[1] = "column" -> ColumnAge(o[2]) [] o[1] = "index" -> IndexAge(o[3])
             [] OTHER -> TableAge(o[2])

\* The objects of revision k are of its age, on tables no younger.
Aged(k) == \A o \in New(k) : Born(o) = k /\ TableAge(o[2]) \in 0..k

\* The age of every table, revision by revision.
LEMMA Age1 == \A t \in Plain[1] \union WithKey[1] : TableAge(t) = 1
BY DEF Plain, WithKey, Ranked, TableAge

LEMMA Age3 == \A t \in Plain[3] \union WithKey[3] : TableAge(t) = 3
BY DEF Plain, WithKey, Ranked, TableAge

LEMMA Age4 == \A t \in Plain[4] \union WithKey[4] : TableAge(t) = 4
BY DEF Plain, WithKey, Ranked, TableAge

LEMMA Age5 == \A t \in Plain[5] \union WithKey[5] : TableAge(t) = 5
BY DEF Plain, WithKey, Ranked, TableAge

LEMMA Age6 == \A t \in Plain[6] \union WithKey[6] : TableAge(t) = 6
BY DEF Plain, WithKey, Ranked, TableAge

LEMMA Age7 == \A t \in Plain[7] \union WithKey[7] : TableAge(t) = 7
BY DEF Plain, WithKey, Ranked, TableAge

LEMMA Age8 == \A t \in Plain[8] \union WithKey[8] : TableAge(t) = 8
BY DEF Plain, WithKey, Ranked, TableAge

LEMMA Age9 == \A t \in Plain[9] \union WithKey[9] : TableAge(t) = 9
BY DEF Plain, WithKey, Ranked, TableAge

LEMMA Age11 == \A t \in Plain[11] \union WithKey[11] : TableAge(t) = 11
BY DEF Plain, WithKey, Ranked, TableAge

LEMMA Age12 == \A t \in Plain[12] \union WithKey[12] : TableAge(t) = 12
BY DEF Plain, WithKey, Ranked, TableAge

\* The age of every table.
LEMMA TableAges == \A k \in 1..12 : \A t \in Plain[k] \union WithKey[k] : TableAge(t) = k
<1> SUFFICES ASSUME NEW k \in 1..12 PROVE \A t \in Plain[k] \union WithKey[k] : TableAge(t) = k
  OBVIOUS
<1>1. \/ k = 1 \/ k = 2 \/ k = 3 \/ k = 4 \/ k = 5 \/ k = 6 \/ k = 7 \/ k = 8 \/ k = 9
      \/ k = 10 \/ k = 11 \/ k = 12
  OBVIOUS
<1>2. Plain[2] \union WithKey[2] = {} /\ Plain[10] \union WithKey[10] = {}
  BY DEF Plain, WithKey
<1> QED
  BY <1>1, <1>2, Age1, Age3, Age4, Age5, Age6, Age7, Age8, Age9, Age11, Age12

\* alembic_version is of no revision.
LEMMA NoVersionTable == TableAge("alembic_version") = 0
BY DEF Plain, WithKey, Ranked, TableAge

\* The ages of columns.
LEMMA ColumnAges ==
    /\ \A o \in ReplaySet : Born(o) = 4 /\ o[2] = "replay_runs"
    /\ \A o \in LeaseSet : Born(o) = 10 /\ o[2] = "scheduler_jobs"
    /\ \A o \in ReviewSet : Born(o) = 12 /\ o[2] = "provider_capability_checks"
BY DEF ReplaySet, LeaseSet, ReviewSet, ColumnsOf, Column, Born, ColumnAge

\* The ages of the tables that others build on.
LEMMA NamedAges ==
    /\ TableAge("bars") = 1 /\ TableAge("features") = 1 /\ TableAge("labels") = 1
    /\ TableAge("live_signals") = 1 /\ TableAge("validation_reports") = 1
    /\ TableAge("scanner_runs") = 1 /\ TableAge("candidate_signals") = 1
    /\ TableAge("replay_runs") = 3 /\ TableAge("scheduler_jobs") = 9
    /\ TableAge("provider_capability_checks") = 11
<1>1. {"bars", "features", "labels", "live_signals", "validation_reports", "scanner_runs",
       "candidate_signals"} \subseteq Plain[1] \union WithKey[1]
  BY DEF Plain, WithKey
<1>2. "replay_runs" \in Plain[3] /\ "scheduler_jobs" \in WithKey[9]
      /\ "provider_capability_checks" \in WithKey[11]
  BY DEF Plain, WithKey
<1> QED
  BY <1>1, <1>2, Age1, Age3, Age9, Age11

\* An index is as old as its name says.
LEMMA IndexedAges ==
    ASSUME NEW t, NEW i PROVE Born(Indexed(t, i)) = IndexAge(i) /\ Indexed(t, i)[2] = t
BY DEF Indexed, Born

\* The age of every index, revision by revision.
LEMMA IndexAges1 == \A o \in IndexesAt[1] : Born(o) = 1 /\ TableAge(o[2]) \in 0..1
<1>1. IndexAge("lookup") = 1 /\ IndexAge("latest") = 1
  BY DEF IndexAge
<1>2. IndexesAt[1] = {Indexed("bars", "lookup"), Indexed("features", "lookup"),
         Indexed("live_signals", "latest")}
  BY DEF IndexesAt
<1> QED
  BY <1>1, <1>2, IndexedAges, NamedAges

LEMMA IndexAges2 == \A o \in IndexesAt[2] : Born(o) = 2 /\ TableAge(o[2]) \in 0..2
<1>1. /\ IndexAge("lookup_version") = 2 /\ IndexAge("symbol_ts_setup_side_outcome") = 2
      /\ IndexAge("ticker_ts_status") = 2 /\ IndexAge("model_purpose_created") = 2
      /\ IndexAge("started") = 2
  BY DEF IndexAge
<1>2. IndexesAt[2] = {Indexed("features", "lookup_version"), Indexed("labels",
         "symbol_ts_setup_side_outcome"), Indexed("live_signals", "ticker_ts_status"),
                  Indexed("validation_reports", "model_purpose_created"), Indexed("scanner_runs",
                           "started")}
  BY DEF IndexesAt
<1> QED
  BY <1>1, <1>2, IndexedAges, NamedAges

LEMMA IndexAges3 == \A o \in IndexesAt[3] : Born(o) = 3 /\ TableAge(o[2]) \in 0..3
<1>1. IndexAge("replay_lookup") = 3 /\ IndexAge("symbol_ts_status_model") = 3
  BY DEF IndexAge
<1>2. IndexesAt[3] = {Indexed("candidate_signals", "replay_lookup"), Indexed("live_signals",
         "symbol_ts_status_model")}
  BY DEF IndexesAt
<1> QED
  BY <1>1, <1>2, IndexedAges, NamedAges

LEMMA IndexAges4 == \A o \in IndexesAt[4] : Born(o) = 4 /\ TableAge(o[2]) \in 0..4
<1>1. IndexAge("config_hash") = 4
  BY DEF IndexAge
<1>2. IndexesAt[4] = {Indexed("replay_runs", "config_hash")}
  BY DEF IndexesAt
<1> QED
  BY <1>1, <1>2, IndexedAges, NamedAges

LEMMA IndexAges5 == \A o \in IndexesAt[5] : Born(o) = 5 /\ TableAge(o[2]) \in 0..5
BY DEF IndexesAt

LEMMA IndexAges6 == \A o \in IndexesAt[6] : Born(o) = 6 /\ TableAge(o[2]) \in 0..6
BY DEF IndexesAt

LEMMA IndexAges7 == \A o \in IndexesAt[7] : Born(o) = 7 /\ TableAge(o[2]) \in 0..7
BY DEF IndexesAt

LEMMA IndexAges8 == \A o \in IndexesAt[8] : Born(o) = 8 /\ TableAge(o[2]) \in 0..8
BY DEF IndexesAt

LEMMA IndexAges9 == \A o \in IndexesAt[9] : Born(o) = 9 /\ TableAge(o[2]) \in 0..9
BY DEF IndexesAt

LEMMA IndexAges10 == \A o \in IndexesAt[10] : Born(o) = 10 /\ TableAge(o[2]) \in 0..10
<1>1. IndexAge("lease_expires") = 10 /\ IndexAge("lease_owner") = 10
  BY DEF IndexAge
<1>2. IndexesAt[10] = {Indexed("scheduler_jobs", "lease_expires"), Indexed("scheduler_jobs",
         "lease_owner")}
  BY DEF IndexesAt
<1> QED
  BY <1>1, <1>2, IndexedAges, NamedAges

LEMMA IndexAges11 == \A o \in IndexesAt[11] : Born(o) = 11 /\ TableAge(o[2]) \in 0..11
BY DEF IndexesAt

LEMMA IndexAges12 == \A o \in IndexesAt[12] : Born(o) = 12 /\ TableAge(o[2]) \in 0..12
<1>1. IndexAge("review") = 12
  BY DEF IndexAge
<1>2. IndexesAt[12] = {Indexed("provider_capability_checks", "review")}
  BY DEF IndexesAt
<1> QED
  BY <1>1, <1>2, IndexedAges, NamedAges

\* All columns are of the age of their revision.
LEMMA ColumnsAged == \A k \in 1..12 : \A o \in ColumnsAt[k] : Born(o) = k /\ TableAge(o[2]) \in 0..k
<1> SUFFICES ASSUME NEW k \in 1..12, NEW o \in ColumnsAt[k] PROVE
         Born(o) = k /\ TableAge(o[2]) \in 0..k
  OBVIOUS
<1>1. /\ ColumnsAt[1] = {} /\ ColumnsAt[2] = {} /\ ColumnsAt[3] = {} /\ ColumnsAt[4] = ReplaySet
      /\ ColumnsAt[5] = {} /\ ColumnsAt[6] = {} /\ ColumnsAt[7] = {} /\ ColumnsAt[8] = {}
      /\ ColumnsAt[9] = {} /\ ColumnsAt[10] = LeaseSet /\ ColumnsAt[11] = {} /\ ColumnsAt[12] = ReviewSet
  BY DEF ColumnsAt
<1>2. \/ k = 1 \/ k = 2 \/ k = 3 \/ k = 4 \/ k = 5 \/ k = 6 \/ k = 7 \/ k = 8 \/ k = 9
      \/ k = 10 \/ k = 11 \/ k = 12
  OBVIOUS
<1>3. CASE k = 4
  BY <1>1, <1>3, ColumnAges, NamedAges
<1>4. CASE k = 10
  BY <1>1, <1>4, ColumnAges, NamedAges
<1>5. CASE k = 12
  BY <1>1, <1>5, ColumnAges, NamedAges
<1>6. CASE k \notin {4, 10, 12}
  <2>1. ColumnsAt[k] = {}
    BY <1>1, <1>2, <1>6, Zenon
  <2> QED
    BY <2>1
<1> QED
  BY <1>3, <1>4, <1>5, <1>6

\* So are all indexes.
LEMMA IndexesAged == \A k \in 1..12 : \A o \in IndexesAt[k] : Born(o) = k /\ TableAge(o[2]) \in 0..k
<1> SUFFICES ASSUME NEW k \in 1..12, NEW o \in IndexesAt[k] PROVE
         Born(o) = k /\ TableAge(o[2]) \in 0..k
  OBVIOUS
<1>1. \/ k = 1 \/ k = 2 \/ k = 3 \/ k = 4 \/ k = 5 \/ k = 6 \/ k = 7 \/ k = 8 \/ k = 9
      \/ k = 10 \/ k = 11 \/ k = 12
  OBVIOUS
<1> QED
  BY <1>1, IndexAges1, IndexAges2, IndexAges3, IndexAges4, IndexAges5, IndexAges6, IndexAges7,
     IndexAges8, IndexAges9, IndexAges10, IndexAges11, IndexAges12

\* So is all that a revision makes.
LEMMA AllAged == \A k \in 1..12 : Aged(k)
<1> SUFFICES ASSUME NEW k \in 1..12, NEW o \in New(k) PROVE Born(o) = k /\ TableAge(o[2]) \in 0..k
  BY DEF Aged
<1>1. CASE o \in ColumnsAt[k] \union IndexesAt[k]
  BY <1>1, ColumnsAged, IndexesAged
<1>2. CASE o \in TablesOf(Plain[k] \union WithKey[k]) \union KeysOf(WithKey[k])
  <2>1. PICK t \in Plain[k] \union WithKey[k] : o = Table(t) \/ o = Key(t)
    BY <1>2 DEF TablesOf, KeysOf
  <2>2. o[2] = t /\ Born(o) = TableAge(t)
    BY <2>1 DEF Table, Key, Born
  <2> QED
    BY <2>2, TableAges
<1> QED
  BY <1>1, <1>2, TablesUnion DEF New, MakesAt

-----------------------------------------------------------------------------
(* A revision on the schema before it, and back. *)

\* Only tables, keys, columns and indexes: neither alembic_version nor the hypertable.
LEMMA NewIsPlain ==
    ASSUME NEW k \in 1..12, NEW o \in New(k)
    PROVE  o # Version /\ o # Hypertable
<1>1. Born(o) = k
  BY AllAged DEF Aged
<1>2. o # Version
  <2>1. Born(Version) = 0
    BY NoVersionTable DEF Version, Table, Born
  <2> QED
    BY <1>1, <2>1
<1>3. Hypertable \notin New(k)
  <2>1. \A t, N : Hypertable \notin ColumnsOf(t,
           N) /\ Hypertable \notin TablesOf(N) /\ Hypertable \notin KeysOf(N)
    BY DEF Hypertable, ColumnsOf, Column, TablesOf, Table, KeysOf, Key
  <2>2. Hypertable \notin ColumnsAt[k]
    BY <2>1 DEF ColumnsAt, ReplaySet, LeaseSet, ReviewSet
  <2> QED
    BY <2>1, <2>2, HypertableApart DEF New, MakesAt
<1> QED
  BY <1>2, <1>3

\* The ages of what the schema of a revision has.
LEMMA LevelAges ==
    ASSUME NEW n \in 0..12, NEW o \in Level(n)
    PROVE  Born(o) \in 1..n /\ TableAge(o[2]) \in 0..n /\ o # Version /\ o # Hypertable
<1>1. PICK k \in 1..n : o \in New(k)
  BY DEF Level
<1>2. k \in 1..12
  OBVIOUS
<1>3. Born(o) = k /\ TableAge(o[2]) \in 0..k /\ o # Version /\ o # Hypertable
  BY <1>1, <1>2, AllAged, NewIsPlain DEF Aged
<1> QED
  BY <1>3

\* One revision after another.
LEMMA LevelNext ==
    /\ Level(0) = {}
    /\ \A n \in 1..12 : Level(n) = Level(n - 1) \union New(n)
<1>1. Level(0) = {}
  <2>1. 1..0 = {}
    OBVIOUS
  <2> QED
    BY <2>1 DEF Level
<1>2. ASSUME NEW n \in 1..12 PROVE Level(n) = Level(n - 1) \union New(n)
  <2>1. 1..n = 1..(n - 1) \union {n}
    OBVIOUS
  <2> QED
    BY <2>1 DEF Level
<1> QED
  BY <1>1, <1>2

\* What revision k builds on is there before it.
LEMMA BasesThere == \A k \in 1..12 : BaseAt[k] \subseteq Level(k - 1)
<1> SUFFICES ASSUME NEW k \in 1..12, NEW o \in BaseAt[k] PROVE o \in Level(k - 1)
  OBVIOUS
<1>1. \/ k = 1 \/ k = 2 \/ k = 3 \/ k = 4 \/ k = 5 \/ k = 6 \/ k = 7 \/ k = 8 \/ k = 9
      \/ k = 10 \/ k = 11 \/ k = 12
  OBVIOUS
<1>2. \A j \in 1..12 : \A t \in Plain[j] \union WithKey[j] : Table(t) \in New(j)
  BY DEF New, MakesAt, TablesOf
<1>3. {"bars", "features", "labels", "live_signals", "validation_reports", "scanner_runs",
       "candidate_signals"} \subseteq Plain[1] \union WithKey[1]
  BY DEF Plain, WithKey
<1>4. "replay_runs" \in Plain[3] /\ "scheduler_jobs" \in WithKey[9]
      /\ "provider_capability_checks" \in WithKey[11]
  BY DEF Plain, WithKey
<1>5. /\ Table("features") \in New(1) /\ Table("labels") \in New(1) /\ Table("live_signals") \in New(1)
      /\ Table("validation_reports") \in New(1) /\ Table("scanner_runs") \in New(1)
      /\ Table("candidate_signals") \in New(1) /\ Table("bars") \in New(1)
      /\ Table("replay_runs") \in New(3) /\ Table("scheduler_jobs") \in New(9)
      /\ Table("provider_capability_checks") \in New(11)
  <2>1. 1 \in 1..12 /\ 3 \in 1..12 /\ 9 \in 1..12 /\ 11 \in 1..12
    OBVIOUS
  <2> QED
    BY <1>2, <1>3, <1>4, <2>1
<1>6. \E j \in 1..(k - 1) : o \in New(j)
  <2>1. /\ BaseAt[1] = {} /\ BaseAt[5] = {} /\ BaseAt[6] = {} /\ BaseAt[7] = {} /\ BaseAt[8] = {}
        /\ BaseAt[9] = {} /\ BaseAt[11] = {}
        /\ BaseAt[2] = {Table("features"), Table("labels"), Table("live_signals"),
                        Table("validation_reports"), Table("scanner_runs")}
        /\ BaseAt[3] = {Table("candidate_signals"), Table("live_signals")}
        /\ BaseAt[4] = {Table("replay_runs"), Table("bars")}
        /\ BaseAt[10] = {Table("scheduler_jobs")} /\ BaseAt[12] = {Table("provider_capability_checks")}
    BY DEF BaseAt
  <2>2. CASE k = 2
    <3>1. o \in New(1) /\ 1 \in 1..(k - 1)
      BY <1>5, <2>1, <2>2
    <3> QED
      BY <3>1
  <2>3. CASE k = 3
    <3>1. o \in New(1) /\ 1 \in 1..(k - 1)
      BY <1>5, <2>1, <2>3
    <3> QED
      BY <3>1
  <2>4. CASE k = 4
    <3>1. (o \in New(1) \/ o \in New(3)) /\ 1 \in 1..(k - 1) /\ 3 \in 1..(k - 1)
      BY <1>5, <2>1, <2>4
    <3> QED
      BY <3>1
  <2>5. CASE k = 10
    <3>1. o \in New(9) /\ 9 \in 1..(k - 1)
      BY <1>5, <2>1, <2>5
    <3> QED
      BY <3>1
  <2>6. CASE k = 12
    <3>1. o \in New(11) /\ 11 \in 1..(k - 1)
      BY <1>5, <2>1, <2>6
    <3> QED
      BY <3>1
  <2>7. CASE k \notin {2, 3, 4, 10, 12}
    <3>1. BaseAt[k] = {}
      BY <1>1, <2>1, <2>7, Zenon
    <3> QED
      BY <3>1
  <2> QED
    BY <2>2, <2>3, <2>4, <2>5, <2>6, <2>7
<1> QED
  BY <1>6 DEF Level

\* A database with the objects of revision n, whether or not it has alembic_version, and the
\* hypertable.
Fits(D, n) == D \ {Version, Hypertable} = Level(n)

\* A database of a revision is not the mark of an error.
LEMMA FitsNotRaised ==
    ASSUME NEW D, NEW n \in 0..12, Fits(D, n)
    PROVE  D # Raised
<1> SUFFICES ASSUME D = Raised PROVE FALSE
  OBVIOUS
<1>1. <<"raised", "">> # Version /\ <<"raised", "">> # Hypertable
  BY DEF Version, Hypertable, Table
<1>2. <<"raised", "">> \in Level(n)
  BY <1>1 DEF Fits, Raised
<1>3. Born(<<"raised", "">>) = 0
  <2>1. TableAge("") = 0
    BY DEF Plain, WithKey, Ranked, TableAge
  <2> QED
    BY <2>1 DEF Born
<1>4. Born(<<"raised", "">>) \in 1..n
  BY <1>2, LevelAges
<1>5. 0 \notin 1..n
  OBVIOUS
<1> QED
  BY <1>3, <1>4, <1>5

\* What is made by revision k is not there before it.
LEMMA NewIsNew ==
    ASSUME NEW k \in 1..12, NEW D, Fits(D, k - 1), NEW o \in New(k)
    PROVE  o \notin D
<1>1. k - 1 \in 0..12 /\ k \notin 1..(k - 1)
  OBVIOUS
<1>2. o # Version /\ o # Hypertable /\ Born(o) = k
  BY NewIsPlain, AllAged DEF Aged
<1>3. o \notin Level(k - 1)
  BY <1>1, <1>2, LevelAges
<1> QED
  BY <1>2, <1>3 DEF Fits

\* Upgrading by one revision: no statement raises, and the objects are those of the next.
LEMMA UpFits ==
    ASSUME NEW k \in 1..12, NEW D, Fits(D, k - 1)
    PROVE  Fits(Up(D, Revisions[k]), k) /\ (Version \in Up(D, Revisions[k]) <=> Version \in D)
<1> DEFINE r == Revisions[k]
           fresh == {s \in r.ups : s.makes \notin D}
           more == UNION {{s.makes} \union s.with : s \in fresh}
<1>1. k - 1 \in 0..12
  OBVIOUS
<1>2. Applies(k)
  BY RevisionsApply
<1>3. ASSUME NEW s \in r.ups, s.makes # Hypertable PROVE s \in fresh
  <2>1. s.makes \in MakesAt(k)
    BY <1>2, <1>3 DEF Applies
  <2>2. s.makes \in New(k)
    BY <2>1 DEF New
  <2> QED
    BY <2>2, NewIsNew
<1>4. r.strict => fresh = r.ups
  BY <1>2, <1>3 DEF Applies
<1>5. r.needs \subseteq D
  <2>1. BaseAt[k] \subseteq Level(k - 1)
    BY BasesThere
  <2> QED
    BY <1>2, <2>1 DEF Applies, Fits
<1>6. D # Raised
  BY <1>1, FitsNotRaised
<1>7. Up(D, r) = D \union more
  BY <1>4, <1>5, <1>6 DEF Up
<1>8. more \ {Hypertable} \subseteq New(k)
  BY <1>2 DEF Applies
<1>9. New(k) \subseteq more
  <2> SUFFICES ASSUME NEW o \in New(k) PROVE o \in more
    OBVIOUS
  <2>1. PICK s \in r.ups : o \in {s.makes} \union s.with
    BY <1>2 DEF Applies
  <2>2. s.makes = Hypertable => s.with = {}
    BY <1>2 DEF Applies, Proper
  <2>3. o # Hypertable
    BY NewIsPlain
  <2>4. s \in fresh
    BY <1>3, <2>1, <2>2, <2>3
  <2> QED
    BY <2>1, <2>4
<1>10. Version \notin New(k) /\ Hypertable \notin New(k) /\ Version # Hypertable
  <2>1. Version # Hypertable
    BY DEF Version, Hypertable, Table
  <2> QED
    BY <2>1, NewIsPlain
<1>11. Level(k) = Level(k - 1) \union New(k)
  BY LevelNext
<1> HIDE DEF r, fresh, more
<1>12. Fits(D \union more, k) /\ (Version \in D \union more <=> Version \in D)
  BY <1>8, <1>9, <1>10, <1>11 DEF Fits
<1> QED
  BY <1>7, <1>12 DEF r

\* Going back by one: the objects are those of the one before.
LEMMA BackFits ==
    ASSUME NEW k \in 1..12, NEW D, Fits(D, k)
    PROVE  Fits(Back(D, Revisions[k]), k - 1) /\ (Version \in Back(D,
             Revisions[k]) <=> Version \in D)
<1> DEFINE r == Revisions[k]
           dropped == {s.makes : s \in r.ups} \ {Hypertable}
           tables == {o[2] : o \in {x \in dropped : x[1] = "table"}}
           rest == {o \in D : o \notin dropped /\ o[2] \notin tables}
<1>1. k \in 0..12 /\ k - 1 \in 0..12 /\ k \notin 0..(k - 1)
  OBVIOUS
<1>2. dropped = MakesAt(k)
  BY RevisionsApply DEF Applies
<1>3. Level(k) = Level(k - 1) \union New(k) /\ MakesAt(k) \subseteq New(k)
  BY LevelNext DEF New
<1>4. dropped \subseteq D
  BY <1>2, <1>3 DEF Fits
<1>5. D # Raised
  BY <1>1, FitsNotRaised
<1>6. Back(D, r) = rest
  BY <1>4, <1>5 DEF Back
<1>7. ASSUME NEW t \in tables PROVE TableAge(t) = k
  <2>1. PICK o \in MakesAt(k) : o[1] = "table" /\ t = o[2]
    BY <1>2
  <2>2. Born(o) = k
    BY <1>3, <2>1, AllAged DEF Aged
  <2> QED
    BY <2>1, <2>2 DEF Born
<1>8. ASSUME NEW o \in New(k) PROVE o \notin rest
  <2>1. CASE o \in MakesAt(k)
    BY <1>2, <2>1
  <2>2. CASE o \in KeysOf(WithKey[k])
    <3>1. PICK t \in WithKey[k] : o = Key(t)
      BY <2>2 DEF KeysOf
    <3>2. Table(t) \in MakesAt(k) /\ Table(t)[1] = "table" /\ Table(t)[2] = t /\ o[2] = t
      BY <3>1 DEF MakesAt, TablesOf, Table, Key
    <3>3. t \in tables
      <4> HIDE DEF dropped
      <4>1. Table(t) \in {x \in dropped : x[1] = "table"}
        BY <1>2, <3>2
      <4> QED
        BY <3>2, <4>1
    <3> QED
      BY <3>2, <3>3
  <2> QED
    BY <2>1, <2>2 DEF New
<1>9. ASSUME NEW o \in Level(k - 1) PROVE o \in rest
  <2>1. o \in D
    BY <1>3 DEF Fits
  <2>2. Born(o) \in 1..(k - 1) /\ TableAge(o[2]) \in 0..(k - 1)
    BY <1>1, LevelAges
  <2>3. o \notin MakesAt(k)
    <3>1. Born(o) # k
      BY <2>2
    <3> QED
      BY <1>3, <3>1, AllAged DEF Aged
  <2>4. o[2] \notin tables
    <3>1. TableAge(o[2]) # k
      BY <2>2
    <3> HIDE DEF tables
    <3> QED
      BY <1>7, <3>1
  <2> QED
    BY <1>2, <2>1, <2>3, <2>4
<1>10. Version \in D => Version \in rest
  <2>1. Version[2] = "alembic_version"
    BY DEF Version, Table
  <2>2. Version \notin MakesAt(k)
    BY <1>3, NewIsPlain
  <2>3. Version[2] \notin tables
    <3>1. TableAge(Version[2]) # k
      BY <2>1, NoVersionTable
    <3> HIDE DEF tables
    <3> QED
      BY <1>7, <3>1
  <2> QED
    BY <1>2, <2>2, <2>3
<1>11. rest \subseteq D
  OBVIOUS
<1> HIDE DEF r, dropped, tables, rest
<1>12. \A o \in Level(k - 1) : o # Version /\ o # Hypertable
  BY <1>1, LevelAges
<1>13. Fits(rest, k - 1) /\ (Version \in rest <=> Version \in D)
  BY <1>3, <1>8, <1>9, <1>10, <1>11, <1>12 DEF Fits
<1> QED
  BY <1>6, <1>13 DEF r

\* A run of revisions up from one version, and back down from one.
Upward(f, D, from, to) == f = [v \in from..to |-> IF v = from THEN D ELSE Up(f[v - 1],
         Revisions[v])]
Downward(f, D, from, to) == f = [v \in to..from |-> IF v = from THEN D ELSE Back(f[v + 1],
         Revisions[v + 1])]

\* Upgrade and Downgrade are the last database of such a run,
LEMMA UpgradeIs == ASSUME NEW D, NEW from, NEW to PROVE Upgrade(D, from,
         to) = (CHOOSE f : Upward(f, D, from, to))[to]
BY DEF Upgrade, Upward
\* whichever run the choice takes.
LEMMA DowngradeIs == ASSUME NEW D, NEW from, NEW to PROVE Downgrade(D, from,
         to) = (CHOOSE f : Downward(f, D, from, to))[to]
BY DEF Downgrade, Downward

\* There is such a run up, from one version to a later one,
LEMMA UpwardExists ==
    ASSUME NEW D, NEW from \in Nat, NEW to \in Nat, from <= to
    PROVE  \E f : Upward(f, D, from, to)
<1> DEFINE S == {j \in Nat : \E f : Upward(f, D, from, from + j)}
<1>1. 0 \in S
  <2> DEFINE f == [v \in from..(from + 0) |-> D]
  <2>1. \A v \in from..(from + 0) : v = from
    OBVIOUS
  <2>2. Upward(f, D, from, from + 0)
    BY <2>1 DEF Upward
  <2> QED
    BY <2>2
<1>2. ASSUME NEW k \in Nat \ {0}, k - 1 \in S PROVE k \in S
  <2>1. PICK f : Upward(f, D, from, from + (k - 1))
    BY <1>2
  <2> DEFINE g == [v \in from..(from + k) |->
                     IF v \in from..(from + (k - 1)) THEN f[v] ELSE Up(f[v - 1], Revisions[v])]
  <2>2. \A v \in from..(from + k) : g[v] = IF v = from THEN D ELSE Up(g[v - 1], Revisions[v])
    <3> SUFFICES ASSUME NEW v \in from..(from + k)
                 PROVE  g[v] = IF v = from THEN D ELSE Up(g[v - 1], Revisions[v])
      OBVIOUS
    <3>1. v # from => v - 1 \in from..(from + (k - 1)) /\ v - 1 \in from..(from + k)
      OBVIOUS
    <3>2. v # from => g[v - 1] = f[v - 1]
      BY <3>1
    <3>3. CASE v \in from..(from + (k - 1))
      BY <2>1, <3>2, <3>3 DEF Upward
    <3>4. CASE v \notin from..(from + (k - 1))
      <4>1. v # from
        BY <3>4
      <4> QED
        BY <3>2, <3>4, <4>1
    <3> QED
      BY <3>3, <3>4
  <2>3. Upward(g, D, from, from + k)
    <3>1. g = [v \in from..(from + k) |-> g[v]]
      OBVIOUS
    <3> HIDE DEF g
    <3> QED
      BY <2>2, <3>1 DEF Upward
  <2> QED
    BY <2>3
<1>3. \A j \in Nat : j \in S
  <2> HIDE DEF S
  <2> QED
    BY <1>1, <1>2, Induction
<1>4. to - from \in S /\ from + (to - from) = to
  BY <1>3
<1> QED
  BY <1>4

\* and one down.
LEMMA DownwardExists ==
    ASSUME NEW D, NEW from \in Nat, NEW to \in Nat, to <= from
    PROVE  \E f : Downward(f, D, from, to)
<1> DEFINE S == {j \in Nat : \E f : Downward(f, D, from, from - j)}
<1>1. 0 \in S
  <2> DEFINE f == [v \in (from - 0)..from |-> D]
  <2>1. \A v \in (from - 0)..from : v = from
    OBVIOUS
  <2>2. Downward(f, D, from, from - 0)
    BY <2>1 DEF Downward
  <2> QED
    BY <2>2
<1>2. ASSUME NEW k \in Nat \ {0}, k - 1 \in S PROVE k \in S
  <2>1. PICK f : Downward(f, D, from, from - (k - 1))
    BY <1>2
  <2> DEFINE g == [v \in (from - k)..from |->
                     IF v \in (from - (k - 1))..from THEN f[v] ELSE Back(f[v + 1],
                              Revisions[v + 1])]
  <2>2. \A v \in (from - k)..from : g[v] = IF v = from THEN D ELSE Back(g[v + 1], Revisions[v + 1])
    <3> SUFFICES ASSUME NEW v \in (from - k)..from
                 PROVE  g[v] = IF v = from THEN D ELSE Back(g[v + 1], Revisions[v + 1])
      OBVIOUS
    <3>1. v # from => v + 1 \in (from - (k - 1))..from /\ v + 1 \in (from - k)..from
      OBVIOUS
    <3>2. v # from => g[v + 1] = f[v + 1]
      BY <3>1
    <3>3. CASE v \in (from - (k - 1))..from
      BY <2>1, <3>2, <3>3 DEF Downward
    <3>4. CASE v \notin (from - (k - 1))..from
      <4>1. v # from
        BY <3>4
      <4> QED
        BY <3>2, <3>4, <4>1
    <3> QED
      BY <3>3, <3>4
  <2>3. Downward(g, D, from, from - k)
    <3>1. g = [v \in (from - k)..from |-> g[v]]
      OBVIOUS
    <3> HIDE DEF g
    <3> QED
      BY <2>2, <3>1 DEF Downward
  <2> QED
    BY <2>3
<1>3. \A j \in Nat : j \in S
  <2> HIDE DEF S
  <2> QED
    BY <1>1, <1>2, Induction
<1>4. from - to \in S /\ from - (from - to) = to
  BY <1>3
<1> QED
  BY <1>4

\* Upgrading a database of one revision to another: no statement raises, and it has what that
\* revision has.
LEMMA UpgradeFits ==
    ASSUME NEW from \in 0..12, NEW to \in 0..12, from <= to, NEW D, Fits(D, from)
    PROVE  Fits(Upgrade(D, from, to), to) /\ (Version \in Upgrade(D, from, to) <=> Version \in D)
<1> DEFINE db == CHOOSE f : Upward(f, D, from, to)
           Good(v) == Fits(db[v], v) /\ (Version \in db[v] <=> Version \in D)
           S == {j \in Nat : from + j <= to => Good(from + j)}
<1>1. Upward(db, D, from, to)
  <2>1. from \in Nat /\ to \in Nat
    OBVIOUS
  <2>2. \E f : Upward(f, D, from, to)
    BY <2>1, UpwardExists
  <2> QED
    BY <2>2, Zenon
<1>2. 0 \in S
  <2> HIDE DEF db
  <2>1. from + 0 = from /\ from \in from..to
    OBVIOUS
  <2>2. db[from + 0] = D
    BY <1>1, <2>1 DEF Upward
  <2> QED
    BY <2>1, <2>2
<1>3. ASSUME NEW k \in Nat \ {0}, k - 1 \in S PROVE k \in S
  <2> SUFFICES ASSUME from + k <= to PROVE Good(from + k)
    OBVIOUS
  <2>1. /\ from + k \in from..to /\ from + k # from /\ from + k \in 1..12
        /\ (from + k) - 1 = from + (k - 1) /\ from + (k - 1) <= to
    OBVIOUS
  <2>2. Good((from + k) - 1)
    BY <1>3, <2>1
  <2>3. db[from + k] = Up(db[(from + k) - 1], Revisions[from + k])
    <3> HIDE DEF db
    <3> QED
      BY <1>1, <2>1 DEF Upward
  <2> HIDE DEF db
  <2>4. Fits(db[(from + k) - 1], (from + k) - 1)
    BY <2>2
  <2>5. /\ Fits(Up(db[(from + k) - 1], Revisions[from + k]), from + k)
        /\ (Version \in Up(db[(from + k) - 1],
                 Revisions[from + k]) <=> Version \in db[(from + k) - 1])
    BY <2>1, <2>4, UpFits
  <2> QED
    BY <2>2, <2>3, <2>5
<1>4. \A j \in Nat : j \in S
  <2> HIDE DEF S
  <2> QED
    BY <1>2, <1>3, Induction
<1>5. to - from \in S /\ from + (to - from) = to
  BY <1>4
<1>6. Good(to)
  BY <1>5
<1> QED
  BY <1>6, UpgradeIs

\* The same of downgrading.
LEMMA DowngradeFits ==
    ASSUME NEW from \in 0..12, NEW to \in 0..12, to <= from, NEW D, Fits(D, from)
    PROVE  Fits(Downgrade(D, from, to), to) /\ (Version \in Downgrade(D, from,
             to) <=> Version \in D)
<1> DEFINE db == CHOOSE f : Downward(f, D, from, to)
           Good(v) == Fits(db[v], v) /\ (Version \in db[v] <=> Version \in D)
           S == {j \in Nat : to <= from - j => Good(from - j)}
<1>1. Downward(db, D, from, to)
  <2>1. from \in Nat /\ to \in Nat
    OBVIOUS
  <2>2. \E f : Downward(f, D, from, to)
    BY <2>1, DownwardExists
  <2> QED
    BY <2>2, Zenon
<1>2. 0 \in S
  <2> HIDE DEF db
  <2>1. from - 0 = from /\ from \in to..from
    OBVIOUS
  <2>2. db[from - 0] = D
    BY <1>1, <2>1 DEF Downward
  <2> QED
    BY <2>1, <2>2
<1>3. ASSUME NEW k \in Nat \ {0}, k - 1 \in S PROVE k \in S
  <2> SUFFICES ASSUME to <= from - k PROVE Good(from - k)
    OBVIOUS
  <2>1. /\ from - k \in to..from /\ from - k # from /\ (from - k) + 1 \in 1..12
        /\ (from - k) + 1 = from - (k - 1) /\ to <= from - (k - 1)
        /\ ((from - k) + 1) - 1 = from - k
    OBVIOUS
  <2>2. Good((from - k) + 1)
    BY <1>3, <2>1
  <2>3. db[from - k] = Back(db[(from - k) + 1], Revisions[(from - k) + 1])
    <3> HIDE DEF db
    <3> QED
      BY <1>1, <2>1 DEF Downward
  <2> HIDE DEF db
  <2>4. Fits(db[(from - k) + 1], (from - k) + 1)
    BY <2>2
  <2>5. /\ Fits(Back(db[(from - k) + 1], Revisions[(from - k) + 1]), ((from - k) + 1) - 1)
        /\ (Version \in Back(db[(from - k) + 1],
                 Revisions[(from - k) + 1]) <=> Version \in db[(from - k) + 1])
    BY <2>1, <2>4, BackFits
  <2> QED
    BY <2>1, <2>2, <2>3, <2>5
<1>4. \A j \in Nat : j \in S
  <2> HIDE DEF S
  <2> QED
    BY <1>2, <1>3, Induction
<1>5. from - to \in S /\ from - (from - to) = to
  BY <1>4
<1>6. Good(to)
  BY <1>5
<1> QED
  BY <1>6, DowngradeIs

\* A database new at revision n has its level, no version table, and perhaps the hypertable.
LEMMA SchemaAtIs ==
    ASSUME NEW n \in 0..12
    PROVE  Version \notin SchemaAt[n] /\ SchemaAt[n] \ {Hypertable} = Level(n)
<1>1. Fits({}, 0)
  BY LevelNext DEF Fits
<1>2. SchemaAt[n] = Upgrade({}, 0, n)
  BY DEF SchemaAt, ExpectedRevision
<1>3. 0 \in 0..12 /\ 0 <= n
  OBVIOUS
<1>4. Fits(SchemaAt[n], n) /\ Version \notin SchemaAt[n]
  BY <1>1, <1>2, <1>3, UpgradeFits
<1> QED
  BY <1>4 DEF Fits

-----------------------------------------------------------------------------
(* Files. *)

\* Objects tell by their kind whether repositories name them.
LEMMA WholeShape ==
    /\ \A o \in Whole : o[1] \in {"table", "key", "column"} /\ o # Version
    /\ \A o \in AllIndexes : o[1] = "index"
    /\ Hypertable[1] = "hypertable"
<1>1. \A o \in Whole : o[1] \in {"table", "key", "column"}
  BY DEF Whole, TablesOf, KeysOf, AllColumns, ReplaySet, LeaseSet, ReviewSet, ColumnsOf, Table, Key,
         Column
<1>2. \A o \in Whole : o # Version
  <2>1. 12 \in 0..12
    OBVIOUS
  <2> QED
    BY <2>1, HeadLevel, LevelAges
<1>3. \A o \in AllIndexes : o[1] = "index"
  <2>1. \A k \in 1..12 : \A o \in IndexesAt[k] : o[1] = "index"
    <3>1. \A t, i : Indexed(t, i)[1] = "index"
      BY DEF Indexed
    <3> QED
      BY <3>1 DEF IndexesAt
  <2> QED
    BY <2>1 DEF AllIndexes
<1> QED
  BY <1>1, <1>2, <1>3 DEF Hypertable

\* The startup script makes no index that no revision has.
LEMMA InitIndexesAre == InitIndexes \subseteq AllIndexes
<1>1. 3 \in 1..12 /\ 4 \in 1..12 /\ 10 \in 1..12 /\ 12 \in 1..12
  OBVIOUS
<1> QED
  BY <1>1 DEF InitIndexes, Late, AllIndexes

\* What any revision has, the head has.
LEMMA LevelsRise == \A n \in 0..12 : Level(n) \subseteq Whole \union AllIndexes
<1>1. \A n \in 0..12 : Level(n) \subseteq Level(12)
  BY DEF Level
<1> QED
  BY <1>1, HeadLevel

\* The head revision has the tables, keys and columns of the metadata.
LEMMA HeadShapeIs == HeadShape = Whole
<1>1. SchemaAt[12] \ {Hypertable} = Whole \union AllIndexes
  <2>1. 12 \in 0..12
    OBVIOUS
  <2> QED
    BY <2>1, SchemaAtIs, HeadLevel
<1> QED
  BY <1>1, WholeShape DEF HeadShape, Shape, ExpectedRevision

\* A keyed table is in no schema without its key.
KeysThere(objects) == \A t \in KeyedTables : Table(t) \in objects => Key(t) \in objects

\* The schemas of all revisions have the keys of their tables.
LEMMA LevelKeys == \A n \in 0..12 : KeysThere(Level(n))
<1> SUFFICES ASSUME NEW n \in 0..12, NEW t \in KeyedTables, Table(t) \in Level(n)
             PROVE  Key(t) \in Level(n)
  BY DEF KeysThere
<1>1. PICK k \in 1..n : Table(t) \in New(k)
  BY DEF Level
<1>2. k \in 1..12
  OBVIOUS
<1>3. Born(Table(t)) = k /\ Born(Table(t)) = TableAge(t)
  <2>1. Born(Table(t)) = k
    BY <1>1, <1>2, AllAged DEF Aged
  <2> QED
    BY <2>1 DEF Born, Table
<1>4. PICK j \in 1..12 : t \in WithKey[j]
  BY AllKeyedIs
<1>5. TableAge(t) = j
  BY <1>4, TableAges
<1>6. t \in WithKey[k]
  BY <1>3, <1>4, <1>5
<1> QED
  BY <1>1, <1>6 DEF Level, New, KeysOf

\* What an earlier version left is part of what the script makes.
LEMMA OldFileIs ==
    ASSUME NEW n \in 0..12
    PROVE  OldFile(n) \subseteq Made /\ KeysThere(OldFile(n))
<1>1. SchemaAt[n] \ {Hypertable} = Level(n)
  BY SchemaAtIs
<1>2. \A o : o \in OldFile(n) <=> o \in Level(n) /\ o[1] \in {"table", "key", "column"}
  <2>1. \A o \in Level(n) : o # Version /\ o # Hypertable
    BY LevelAges
  <2>2. Hypertable[1] = "hypertable"
    BY WholeShape
  <2> QED
    BY <1>1, <2>1, <2>2 DEF OldFile, Shape
<1>3. OldFile(n) \subseteq Whole
  BY <1>2, LevelsRise, WholeShape
<1>4. KeysThere(OldFile(n))
  <2>1. \A t : Key(t)[1] = "key"
    BY DEF Key
  <2> QED
    BY <1>2, <2>1, LevelKeys DEF KeysThere
<1> QED
  BY <1>3, <1>4, InitializeDoes

\* A file the script went through has the shape of the head revision.
LEMMA ShapeOfFile ==
    ASSUME NEW objects, objects \subseteq Made, KeysThere(objects),
           \A i \in 1..Steps : Initialize[i].makes \in objects
    PROVE  Shape(objects) = HeadShape
<1>1. TablesOf(AllPlain) \union TablesOf(KeyedTables) \union AllColumns \subseteq objects
  BY InitializeDoes
<1>2. KeysOf(KeyedTables) \subseteq objects
  BY <1>1 DEF KeysThere, KeysOf, TablesOf
<1>3. Whole \subseteq objects /\ objects \subseteq Whole \union AllIndexes
  BY <1>1, <1>2, InitializeDoes, InitIndexesAre DEF Whole
<1> QED
  BY <1>3, WholeShape, HeadShapeIs DEF Shape

-----------------------------------------------------------------------------
(* The inductive invariant. *)

Places == {"down", "tables", "version", "init", "pg", "file"}
ProcOK == proc \in [Procs -> [at : Places, missing : BOOLEAN, next : 1..(Steps + 1)]]

\* The statements before this one have been run.
Done(n, objects) == \A i \in 1..Steps : i < n => Initialize[i].makes \in objects

StoreInv ==
    /\ ProcOK
    /\ failed = {}
    /\ pg.version \in 0..12 /\ Fits(pg.schema, pg.version)
    /\ file \subseteq Made /\ KeysThere(file)
    /\ \A p \in Procs : proc[p].at = "down" => proc[p].next = 1
    /\ \A p \in Procs : proc[p].at = "init" => Done(proc[p].next, file)
    /\ \A p \in Procs : proc[p].at = "file" => Done(Steps + 1, file)

\* Files were left at revisions there are, and the operator migrates to such.
LEMMA TargetsInRange == Phases \subseteq 0..12 /\ Targets \subseteq 0..12
BY RevisionsAssumption DEF ExpectedRevision

\* A process that is down.
LEMMA DownIs == Down \in [at : Places, missing : BOOLEAN, next : 1..(Steps + 1)]
                /\ Down.at = "down" /\ Down.next = 1
<1>1. Steps \in Nat
  BY InitializeDoes
<1> QED
  BY <1>1 DEF Down, Places

\* The invariant holds at first,
LEMMA StoreInit == Init => StoreInv
<1> SUFFICES ASSUME Init PROVE StoreInv
  OBVIOUS
<1>1. ProcOK /\ \A p \in Procs : proc[p].at = "down" /\ proc[p].next = 1
  BY DownIs DEF Init, ProcOK
<1>2. pg.version = 0 /\ pg.schema = {}
  BY DEF Init
<1>3. Fits(pg.schema, pg.version)
  BY <1>2, LevelNext DEF Fits
<1>4. file \subseteq Made /\ KeysThere(file)
  BY TargetsInRange, OldFileIs DEF Init
<1>5. failed = {}
  BY DEF Init
<1> QED
  BY <1>1, <1>2, <1>3, <1>4, <1>5 DEF StoreInv

\* A migration finds its statements' objects where they belong, and never fails.
LEMMA MigrateStep ==
    ASSUME StoreInv, NEW to \in Targets, Migrate(to)
    PROVE  /\ failed' = {} /\ pg'.version \in 0..12 /\ Fits(pg'.schema, pg'.version)
           /\ UNCHANGED <<file, proc>>
<1> DEFINE from == pg.version
           schema == IF from <= to THEN Upgrade(pg.schema, from, to) ELSE Downgrade(pg.schema,
                    from, to)
<1>1. from \in 0..12 /\ to \in 0..12 /\ Fits(pg.schema, from) /\ failed = {}
  BY TargetsInRange DEF StoreInv
<1>2. Fits(schema, to)
  <2>1. CASE from <= to
    BY <1>1, <2>1, UpgradeFits
  <2>2. CASE ~(from <= to)
    <3>1. to <= from
      BY <1>1, <2>2
    <3> QED
      BY <1>1, <2>2, <3>1, DowngradeFits
  <2> QED
    BY <2>1, <2>2
<1>3. schema # Raised
  BY <1>1, <1>2, FitsNotRaised
<1>4. /\ IF schema = Raised
           THEN failed' = failed \union {"migration"} /\ UNCHANGED pg
           ELSE pg' = [schema |-> schema \union {Version}, version |-> to] /\ UNCHANGED failed
      /\ UNCHANGED <<file, proc>>
  BY DEF Migrate
<1> HIDE DEF schema
<1>5. pg' = [schema |-> schema \union {Version}, version |-> to] /\ failed' = failed
  BY <1>3, <1>4
<1>6. Fits(schema \union {Version}, to)
  BY <1>2 DEF Fits
<1> QED
  BY <1>1, <1>4, <1>5, <1>6

\* A statement of the script finds what it builds on, and what it makes completes the file.
LEMMA InitializeStepStep ==
    ASSUME StoreInv, NEW p \in Procs, InitializeStep(p)
    PROVE  /\ UNCHANGED <<env, pg, failed>> /\ file \subseteq file' /\ file' \subseteq Made
           /\ KeysThere(file') /\ Done(proc[p].next + 1, file')
           /\ proc[p].next \in 1..Steps /\ proc[p].at = "init"
           /\ proc' = [proc EXCEPT ![p].next = @ + 1]
<1> DEFINE n == proc[p].next
           s == Initialize[n]
<1>1. n \in 1..Steps /\ proc[p].at = "init" /\ Done(n,
         file) /\ file \subseteq Made /\ KeysThere(file)
  <2>1. n \in 1..(Steps + 1) /\ n <= Steps /\ proc[p].at = "init"
    BY DEF InitializeStep, StoreInv, ProcOK
  <2> QED
    BY <2>1, InitializeDoes DEF StoreInv
<1>2. s.needs \subseteq file
  <2>1. s.needs \subseteq {Initialize[j].makes : j \in 1..(n - 1)}
    BY <1>1, InitializeDoes
  <2>2. \A j \in 1..(n - 1) : j \in 1..Steps /\ j < n
    BY <1>1, InitializeDoes
  <2>3. \A j \in 1..(n - 1) : Initialize[j].makes \in file
    BY <1>1, <2>2 DEF Done
  <2> HIDE DEF n, s
  <2> QED
    BY <2>1, <2>3
<1>3. /\ file' = IF s.makes \in file THEN file ELSE file \union {s.makes} \union s.with
      /\ UNCHANGED <<env, pg, failed>> /\ proc' = [proc EXCEPT ![p].next = @ + 1]
  BY <1>2 DEF InitializeStep
<1>4. Proper(s) /\ {s.makes} \union s.with \subseteq Made
  BY <1>1, InitializeDoes
<1>5. file \subseteq file' /\ file' \subseteq Made /\ s.makes \in file'
  <2> HIDE DEF n, s
  <2> QED
    BY <1>1, <1>3, <1>4
<1>6. KeysThere(file')
  <2> SUFFICES ASSUME NEW t \in KeyedTables, Table(t) \in file' PROVE Key(t) \in file'
    BY DEF KeysThere
  <2> HIDE DEF n, s
  <2>1. CASE Table(t) \in file
    BY <1>1, <1>5, <2>1 DEF KeysThere
  <2>2. CASE Table(t) \notin file
    <3>1. s.makes \notin file /\ file' = file \union {s.makes} \union s.with
      BY <1>3, <2>2
    <3>2. s.makes = Table(t)
      BY <1>4, <2>2, <3>1 DEF Proper
    <3> QED
      BY <1>4, <3>1, <3>2 DEF Proper
  <2> QED
    BY <2>1, <2>2
<1>7. Done(n + 1, file')
  <2> SUFFICES ASSUME NEW i \in 1..Steps, i < n + 1 PROVE Initialize[i].makes \in file'
    BY DEF Done
  <2>1. CASE i = n
    BY <1>5, <2>1
  <2>2. CASE i # n
    <3>1. i < n
      BY <1>1, <2>2, InitializeDoes
    <3> QED
      BY <1>1, <1>5, <3>1 DEF Done
  <2> QED
    BY <2>1, <2>2
<1> QED
  BY <1>1, <1>3, <1>5, <1>6, <1>7

\* What has been run stays run.
LEMMA DoneMore ==
    ASSUME NEW n, NEW objects, NEW more, objects \subseteq more, Done(n, objects)
    PROVE  Done(n, more)
BY DEF Done

\* The steps of a process that leave the databases alone.
Quiet(p) == Open(p) \/ ReadTables(p) \/ ReadVersion(p) \/ Unreachable(p) \/ Initialized(p) \/ Crash(p)

\* Where such a step takes a process.
LEMMA QuietStep ==
    ASSUME StoreInv, NEW p \in Procs, Quiet(p)
    PROVE  /\ UNCHANGED <<env, pg, file, failed>> /\ ProcOK'
           /\ \A q \in Procs \ {p} : proc'[q] = proc[q]
           /\ proc'[p].at \in {"down", "init"} => proc'[p].next = 1
           /\ proc'[p].at = "file" => Done(Steps + 1, file)
           /\ proc'[p].at = "pg" => Verified(p)
<1> DEFINE Row == [at : Places, missing : BOOLEAN, next : 1..(Steps + 1)]
<1>1. proc \in [Procs -> Row] /\ proc[p] \in Row /\ Steps \in Nat
  BY InitializeDoes DEF StoreInv, ProcOK
<1>2. UNCHANGED <<env, pg, file, failed>>
  BY DEF Quiet, Open, ReadTables, ReadVersion, Unreachable, Initialized, Crash
<1>3. ASSUME NEW row \in Row, proc' = [proc EXCEPT ![p] = row]
      PROVE  ProcOK' /\ proc'[p] = row /\ \A q \in Procs \ {p} : proc'[q] = proc[q]
  <2> HIDE DEF Row
  <2>1. proc' \in [Procs -> Row] /\ proc'[p] = row /\ \A q \in Procs \ {p} : proc'[q] = proc[q]
    BY <1>1, <1>3
  <2> QED
    BY <2>1 DEF Row, ProcOK
<1>4. \A x \in Places : [Down EXCEPT !.at = x] \in Row /\ [Down EXCEPT !.at = x].at = x
                        /\ [Down EXCEPT !.at = x].next = 1
  <2> SUFFICES ASSUME NEW x \in Places
               PROVE  [Down EXCEPT !.at = x] \in Row /\ [Down EXCEPT !.at = x].at = x
                      /\ [Down EXCEPT !.at = x].next = 1
    OBVIOUS
  <2>1. Down \in Row /\ Down.next = 1
    BY DownIs
  <2> QED
    BY <2>1
<1>5. CASE Open(p)
  <2> DEFINE x == IF env.kind = "postgresql" THEN "tables" ELSE "init"
             row == [proc[p] EXCEPT !.at = x]
  <2>1. proc[p].at = "down" /\ proc' = [proc EXCEPT ![p].at = x]
    BY <1>5 DEF Open
  <2>2. proc[p].next = 1
    BY <2>1 DEF StoreInv
  <2>3. row \in Row /\ row.at = x /\ row.next = 1 /\ x \in {"tables", "init"}
    BY <1>1, <2>2 DEF Places
  <2>4. proc' = [proc EXCEPT ![p] = row]
    BY <1>1, <2>1
  <2> HIDE DEF x, row, Row
  <2> QED
    BY <1>2, <1>3, <2>3, <2>4
<1>6. CASE ReadTables(p)
  <2> DEFINE m == \E t \in ExpectedTables : Table(t) \notin pg.schema
             row == [proc[p] EXCEPT !.at = "version", !.missing = m]
  <2>1. proc' = [proc EXCEPT ![p] = row]
    BY <1>1, <1>6 DEF ReadTables
  <2>2. m \in BOOLEAN
    OBVIOUS
  <2>3. row \in Row /\ row.at = "version"
    <3> HIDE DEF m
    <3> QED
      BY <1>1, <2>2 DEF Places
  <2> HIDE DEF row, Row, m
  <2> QED
    BY <1>2, <1>3, <2>1, <2>3
<1>7. CASE Refused(p)
  <2> DEFINE x == IF env.fallback THEN "init" ELSE "down"
             row == [Down EXCEPT !.at = x]
  <2>1. proc' = [proc EXCEPT ![p] = row] /\ x \in {"init", "down"}
    BY <1>7 DEF Refused
  <2>2. row \in Row /\ row.at = x /\ row.next = 1
    BY <1>4, <2>1 DEF Places
  <2> HIDE DEF x, row, Row
  <2> QED
    BY <1>2, <1>3, <2>1, <2>2
<1>8. CASE Verified(p) /\ proc' = [proc EXCEPT ![p] = [Down EXCEPT !.at = "pg"]]
  <2> DEFINE row == [Down EXCEPT !.at = "pg"]
  <2>1. row \in Row /\ row.at = "pg"
    BY <1>4 DEF Places
  <2> HIDE DEF row, Row
  <2> QED
    BY <1>2, <1>3, <1>8, <2>1 DEF row
<1>9. CASE Initialized(p)
  <2> DEFINE row == [Down EXCEPT !.at = "file"]
  <2>1. row \in Row /\ row.at = "file"
    BY <1>4 DEF Places
  <2>2. proc[p].at = "init" /\ proc[p].next > Steps /\ proc' = [proc EXCEPT ![p] = row]
    BY <1>9 DEF Initialized
  <2>3. proc[p].next = Steps + 1
    BY <1>1, <2>2
  <2>4. Done(Steps + 1, file)
    BY <2>2, <2>3 DEF StoreInv
  <2> HIDE DEF row, Row
  <2> QED
    BY <1>2, <1>3, <2>1, <2>2, <2>4
<1>10. CASE Crash(p)
  <2>1. proc' = [proc EXCEPT ![p] = Down]
    BY <1>10 DEF Crash
  <2>2. Down \in Row /\ Down.at = "down" /\ Down.next = 1
    BY DownIs
  <2> HIDE DEF Row
  <2> QED
    BY <1>2, <1>3, <2>1, <2>2
<1>11. Quiet(p) => Open(p) \/ ReadTables(p) \/ Refused(p) \/ Initialized(p) \/ Crash(p)
                   \/ (Verified(p) /\ proc' = [proc EXCEPT ![p] = [Down EXCEPT !.at = "pg"]])
  BY DEF Quiet, ReadVersion, Unreachable
<1> QED
  BY <1>5, <1>6, <1>7, <1>8, <1>9, <1>10, <1>11

\* Next, with the quiet steps together.
LEMMA NextIs ==
    Next => \/ \E to \in Targets : Migrate(to)
            \/ \E p \in Procs : Quiet(p) \/ InitializeStep(p)
BY DEF Next, Quiet

\* and every step preserves it.
LEMMA StoreNext == StoreInv /\ [Next]_vars => StoreInv'
<1> SUFFICES ASSUME StoreInv, [Next]_vars PROVE StoreInv'
  OBVIOUS
<1>1. ASSUME NEW to \in Targets, Migrate(to) PROVE StoreInv'
  BY <1>1, MigrateStep DEF StoreInv, ProcOK
<1>2. ASSUME NEW p \in Procs, InitializeStep(p) PROVE StoreInv'
  <2>1. /\ UNCHANGED <<env, pg, failed>> /\ file \subseteq file' /\ file' \subseteq Made
        /\ KeysThere(file') /\ Done(proc[p].next + 1, file')
        /\ proc[p].next \in 1..Steps /\ proc[p].at = "init"
        /\ proc' = [proc EXCEPT ![p].next = @ + 1]
    BY <1>2, InitializeStepStep
  <2>2. Steps \in Nat
    BY InitializeDoes
  <2> DEFINE Row == [at : Places, missing : BOOLEAN, next : 1..(Steps + 1)]
             row == [proc[p] EXCEPT !.next = @ + 1]
  <2>3. proc \in [Procs -> Row] /\ proc[p] \in Row
    BY DEF StoreInv, ProcOK
  <2>4. row \in Row /\ row.at = "init" /\ row.next = proc[p].next + 1
    BY <2>1, <2>2, <2>3
  <2>5. proc' = [proc EXCEPT ![p] = row]
    BY <2>1, <2>3
  <2>6. proc' \in [Procs -> Row] /\ proc'[p] = row /\ \A q \in Procs \ {p} : proc'[q] = proc[q]
    <3> HIDE DEF Row, row
    <3> QED
      BY <2>3, <2>4, <2>5
  <2>7. ProcOK'
    BY <2>6 DEF ProcOK
  <2> HIDE DEF Row, row
  <2>8. \A q \in Procs : proc'[q].at = "down" => proc'[q].next = 1
    BY <2>4, <2>6 DEF StoreInv
  <2>9. \A q \in Procs : proc'[q].at = "init" => Done(proc'[q].next, file')
    BY <2>1, <2>4, <2>6, DoneMore DEF StoreInv
  <2>10. \A q \in Procs : proc'[q].at = "file" => Done(Steps + 1, file')
    BY <2>1, <2>4, <2>6, DoneMore DEF StoreInv
  <2>11. failed' = {} /\ pg'.version \in 0..12 /\ Fits(pg'.schema, pg'.version)
    BY <2>1 DEF StoreInv
  <2> QED
    BY <2>1, <2>7, <2>8, <2>9, <2>10, <2>11 DEF StoreInv
<1>3. ASSUME NEW p \in Procs, Quiet(p) PROVE StoreInv'
  <2>1. /\ UNCHANGED <<env, pg, file, failed>> /\ ProcOK'
        /\ \A q \in Procs \ {p} : proc'[q] = proc[q]
        /\ proc'[p].at \in {"down", "init"} => proc'[p].next = 1
        /\ proc'[p].at = "file" => Done(Steps + 1, file)
    BY <1>3, QuietStep
  <2>2. Done(1, file)
    BY InitializeDoes DEF Done
  <2>3. \A q \in Procs : proc'[q].at = "down" => proc'[q].next = 1
    BY <2>1 DEF StoreInv
  <2>4. \A q \in Procs : proc'[q].at = "init" => Done(proc'[q].next, file)
    BY <2>1, <2>2 DEF StoreInv
  <2>5. \A q \in Procs : proc'[q].at = "file" => Done(Steps + 1, file)
    BY <2>1 DEF StoreInv
  <2> QED
    BY <2>1, <2>3, <2>4, <2>5 DEF StoreInv
<1>4. CASE UNCHANGED vars
  BY <1>4 DEF vars, StoreInv, ProcOK
<1> QED
  BY <1>1, <1>2, <1>3, <1>4, NextIs

-----------------------------------------------------------------------------
(* The theorems. *)

\* The inductive invariant holds of every run, whatever the processes, the versions files were
\* left at and the revisions the operator migrates to.
THEOREM StoreInvariant == Spec => []StoreInv
BY StoreInit, StoreNext, PTL DEF Spec

\* The settings are those of a process, and migrations are counted up to the bound.
EnvOK == env \in [kind : Kinds, fallback : BOOLEAN, migrations : 0..MaxMigrations]

LEMMA EnvIsTyped == Spec => []EnvOK
<1>1. Init => EnvOK
  <2> SUFFICES ASSUME Init PROVE EnvOK
    OBVIOUS
  <2>1. PICK s \in Settings : env = [kind |-> s.kind, fallback |-> s.fallback, migrations |-> 0]
    BY DEF Init
  <2>2. s \in [kind : Kinds, fallback : BOOLEAN] /\ MaxMigrations \in Nat
    BY SettingsAssumption
  <2>3. s.kind \in Kinds /\ s.fallback \in BOOLEAN
    BY <2>2
  <2> QED
    BY <2>1, <2>2, <2>3 DEF EnvOK
<1>2. EnvOK /\ [Next]_vars => EnvOK'
  <2> SUFFICES ASSUME EnvOK, [Next]_vars PROVE EnvOK'
    OBVIOUS
  <2>1. ASSUME NEW to \in Targets, Migrate(to) PROVE EnvOK'
    <3>1. env' = [env EXCEPT !.migrations = @ + 1] /\ env.migrations < MaxMigrations
      BY <2>1 DEF Migrate
    <3>2. env.migrations + 1 \in 0..MaxMigrations
      BY <3>1, SettingsAssumption DEF EnvOK
    <3> QED
      BY <3>1, <3>2 DEF EnvOK
  <2>2. ASSUME NEW p \in Procs, Quiet(p) \/ InitializeStep(p) PROVE EnvOK'
    <3>1. env' = env
      BY <2>2 DEF Quiet, Open, ReadTables, ReadVersion, Unreachable, Initialized, Crash, InitializeStep
    <3> QED
      BY <3>1 DEF EnvOK
  <2>3. CASE UNCHANGED vars
    BY <2>3 DEF vars, EnvOK
  <2> QED
    BY <2>1, <2>2, <2>3, NextIs
<1> QED
  BY <1>1, <1>2, PTL DEF Spec

\* Each database has objects that some version makes, and every process is where one can be.
THEOREM TypeCorrect == Spec => []TypeOK
<1>1. StoreInv /\ EnvOK => TypeOK
  <2> SUFFICES ASSUME StoreInv, EnvOK PROVE TypeOK
    OBVIOUS
  <2>1. pg.version \in 0..12 /\ Fits(pg.schema, pg.version)
    BY DEF StoreInv
  <2>2. Level(pg.version) \subseteq Level(12)
    BY <2>1, LevelsRise, HeadLevel
  <2>3. SchemaAt[12] \ {Hypertable} = Level(12)
    <3>1. 12 \in 0..12
      OBVIOUS
    <3> QED
      BY <3>1, SchemaAtIs
  <2>4. pg.schema \subseteq Full \union {Version, Hypertable}
    BY <2>1, <2>2, <2>3 DEF Fits, Full, ExpectedRevision
  <2>5. /\ file \subseteq Made /\ failed \subseteq {"migration", "initialize"}
        /\ proc \in [Procs -> [at : Places, missing : BOOLEAN, next : 1..(Steps + 1)]]
    BY DEF StoreInv, ProcOK
  <2> QED
    BY <2>1, <2>4, <2>5 DEF TypeOK, EnvOK, Places, ExpectedRevision
<1> QED
  BY <1>1, StoreInvariant, EnvIsTyped, PTL

\* No statement of a migration or of the startup script ever raises, and the PostgreSQL
\* database has what its version says.
THEOREM ScriptsApplyHolds == Spec => []ScriptsApply
<1>1. StoreInv => ScriptsApply
  <2> SUFFICES ASSUME StoreInv PROVE ScriptsApply
    OBVIOUS
  <2>1. pg.version \in 0..12 /\ Fits(pg.schema, pg.version) /\ failed = {}
    BY DEF StoreInv
  <2>2. SchemaAt[pg.version] \ {Hypertable} = Level(pg.version)
    BY <2>1, SchemaAtIs
  <2> QED
    BY <2>1, <2>2 DEF ScriptsApply, Fits
<1> QED
  BY <1>1, StoreInvariant, PTL

\* A registry on SQLite has the tables, keys and columns of the head revision.
THEOREM BackendsAgreeHolds == Spec => []BackendsAgree
<1>1. StoreInv => BackendsAgree
  <2> SUFFICES ASSUME StoreInv, NEW p \in Procs, proc[p].at = "file" PROVE Shape(file) = HeadShape
    BY DEF BackendsAgree
  <2>1. file \subseteq Made /\ KeysThere(file) /\ Done(Steps + 1, file)
    BY DEF StoreInv
  <2>2. \A i \in 1..Steps : Initialize[i].makes \in file
    BY <2>1, InitializeDoes DEF Done
  <2> QED
    BY <2>1, <2>2, ShapeOfFile
<1> QED
  BY <1>1, StoreInvariant, PTL

\* A registry is opened on PostgreSQL only while the database has all of the metadata.
THEOREM AcceptedIsCurrentHolds == Spec => AcceptedIsCurrent
<1> DEFINE A == \A p \in Procs : proc[p].at # "pg" /\ proc'[p].at = "pg" =>
         Required \subseteq pg.schema
<1>1. ASSUME StoreInv, Next PROVE A
  <2> SUFFICES ASSUME NEW p \in Procs, proc[p].at # "pg", proc'[p].at = "pg"
               PROVE  Required \subseteq pg.schema
    OBVIOUS
  <2>1. ASSUME NEW to \in Targets, Migrate(to) PROVE FALSE
    BY <1>1, <2>1, MigrateStep
  <2>2. ASSUME NEW q \in Procs, InitializeStep(q) PROVE FALSE
    <3>1. proc' = [proc EXCEPT ![q].next = @ + 1]
      BY <1>1, <2>2, InitializeStepStep
    <3>2. proc'[p].at = proc[p].at
      BY <1>1, <3>1 DEF StoreInv, ProcOK
    <3> QED
      BY <3>2
  <2>3. ASSUME NEW q \in Procs, Quiet(q) PROVE Required \subseteq pg.schema
    <3>1. p = q
      BY <1>1, <2>3, QuietStep
    <3>2. Verified(p)
      BY <1>1, <2>3, <3>1, QuietStep
    <3>3. pg.version = 12 /\ Fits(pg.schema, pg.version)
      BY <1>1, <3>2 DEF Verified, ExpectedRevision, StoreInv
    <3>4. Level(12) \subseteq pg.schema
      BY <3>3 DEF Fits
    <3> QED
      BY <3>4, HeadLevel, RequiredIs
  <2> QED
    BY <1>1, <2>1, <2>2, <2>3, NextIs
<1>2. StoreInv /\ [Next]_vars => [A]_vars
  BY <1>1
<1> QED
  BY <1>2, StoreInvariant, PTL DEF Spec, AcceptedIsCurrent
================================================================================
