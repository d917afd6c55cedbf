--------------------------- MODULE BlobInfoProofs ---------------------------
(***************************************************************************)
(* Proofs about the blob-info tables, for any number of objects, pools and *)
(* epochs, any sequence of events and any number of crashes: the aggregate *)
(* counts what the tables hold, it is exact after garbage collection, the  *)
(* initial certified epoch is the right one, and the data of a live blob   *)
(* is never deleted.                                                       *)
(*                                                                         *)
(* The inductive invariant is IInv. Its core is Matches: a count of the    *)
(* aggregate is the cardinality of a set of entries, its end epochs are at *)
(* least theirs, and also those of the certified ones, which no property   *)
(* mentions but is_certified of V1 relies on. TrackedInv and UntrackedInv  *)
(* say which objects on chain have an entry, CollectedInv what garbage     *)
(* collection has already removed, TxnInv what a transaction that was      *)
(* opened earlier may still delete, and SinceInv that the initial          *)
(* certified epoch stays the first one, also during phase 1.               *)
(*                                                                         *)
(* The first part is about one operand merged into the aggregate and the   *)
(* table of objects, as pure functions; then follow what an event does,    *)
(* what the aggregate says about the objects on chain, and the actions.    *)
(***************************************************************************)
EXTENDS BlobInfo, FiniteSetTheorems, TLAPS

ObjectKinds == {"deletable", "permanent", "pooled"}

Records ==
  [status : {"new", "live", "gone"}, kind : ObjectKinds \cup {"none"},
   pool : Pools \cup {"none"}, end : Nat, certified : Nat]

PermanentInfos == [count : Nat, end : Nat]

Infos ==
  [version : {"None", "V1", "V2", "Invalid"}, metadata : BOOLEAN, initial : Nat,
   deletable : Nat, deletableCertified : Nat,
   permanent : PermanentInfos, permanentCertified : PermanentInfos,
   latestRegistered : Nat, latestCertified : Nat, pooled : Nat, pooledCertified : Nat]

\* Tables of objects.
Tables == [Objects -> Records]

\* An entry of kind k, and a certified one.
IsEntry(r, k) == r # NoEntry /\ r.kind = k
IsCertifiedEntry(r, k) == r # NoEntry /\ r.kind = k /\ r.certified > 0

EntriesOf(t, k) == {o \in Objects : IsEntry(t[o], k)}
CertifiedOf(t, k) == {o \in Objects : IsCertifiedEntry(t[o], k)}
NumEntries(t, k) == Cardinality(EntriesOf(t, k))
NumCertified(t, k) == Cardinality(CertifiedOf(t, k))

CountsMatch(i, t) ==
  /\ i.deletable = NumEntries(t, "deletable")
  /\ i.deletableCertified = NumCertified(t, "deletable")
  /\ i.permanent.count = NumEntries(t, "permanent")
  /\ i.permanentCertified.count = NumCertified(t, "permanent")
  /\ i.pooled = NumEntries(t, "pooled")
  /\ i.pooledCertified = NumCertified(t, "pooled")

EndsOfPermanent(i, t) ==
  /\ i.permanent.count = 0 => i.permanent.end = 0
  /\ i.permanentCertified.count = 0 => i.permanentCertified.end = 0
  /\ \A o \in EntriesOf(t, "permanent") : i.permanent.end >= t[o].end
  /\ \A o \in CertifiedOf(t, "permanent") : i.permanentCertified.end >= t[o].end

EndsOfDeletable(i, t) ==
  i.version = "V1" =>
    /\ \A o \in EntriesOf(t, "deletable") : i.latestRegistered >= t[o].end
    /\ \A o \in CertifiedOf(t, "deletable") : i.latestCertified >= t[o].end

\* Some entry is certified.
AnyCertified(t) == \E o \in Objects : t[o] # NoEntry /\ t[o].certified > 0

InitialMatches(i, t) == i.initial > 0 <=> AnyCertified(t)

\* The aggregate i says what the table t says, with what keeps it so.
Agrees(i, t) ==
  CountsMatch(i, t) /\ EndsOfPermanent(i, t) /\ EndsOfDeletable(i, t) /\ InitialMatches(i, t)

Matches(i, t) ==
  /\ i \in Infos
  /\ i.version = "None" => i = NoInfo
  /\ i.version # "Invalid" => Agrees(i, t)

-----------------------------------------------------------------------------
(* The invariant *)

TypeInv ==
  /\ epoch \in Nat \ {0} /\ epochAtStart \in EpochsAtStart
  /\ objects \in Tables /\ table \in Tables
  /\ pools \in [Pools -> Nat] /\ poolTable \in [Pools -> Nat]
  /\ handled \in Nat /\ (replay => handled > 0)
  /\ gc \in {"idle", "pools", "regular", "pooled"}
  /\ txn \in [by : {"none", "task", "worker"}, does : {"nothing", "data", "both"}]
  /\ task \in 0 .. epoch /\ deletions \in 0 .. epoch

\* An object on chain that has been registered.
IsObject(obj) ==
  /\ obj \in Records /\ obj.status # "new" /\ obj.kind \in ObjectKinds
  /\ obj.certified <= epoch
  /\ obj.kind = "pooled" => epochAtStart = 0 /\ obj.pool \in Pools /\ pools[obj.pool] > 0

ObjectsInv == \A o \in Objects : objects[o] = NoObject \/ IsObject(objects[o])

\* An entry is its object, and one that the node does not ignore.
TrackedInv ==
  \A o \in Objects : table[o] # NoEntry =>
    /\ table[o] = objects[o]
    /\ objects[o].status = "live"
    /\ epoch >= FirstCompleteEpoch
    /\ epochAtStart > 0 => table[o].end > epochAtStart

\* The only live objects that have no entry end before the start of the node.
UntrackedInv ==
  \A o \in LiveObjects : table[o] = NoEntry =>
    epochAtStart > 0 /\ objects[o].kind # "pooled" /\ objects[o].end <= epochAtStart

PoolsInv ==
  \A p \in Pools : poolTable[p] <= pools[p] /\ (pools[p] > epoch => poolTable[p] = pools[p])

\* Garbage collection leaves nothing behind in the tables that it is done with.
CollectedInv ==
  /\ gc = "idle" => \A o \in Objects : ~ Expired(table[o])
  /\ gc = "pooled" => \A o \in Objects : Phase(table[o]) = "regular" => ~ Expired(table[o])

\* What an open transaction is still allowed to do.
TxnInv ==
  /\ txn.does = "both" => Valid(info) /\ \A o \in Objects : table[o] = NoEntry
  /\ txn.does # "nothing" => \/ LiveObjects = {} \/ info.version = "Invalid"
                             \/ epoch < epochAtStart
  /\ txn.by = "none" => txn.does = "nothing"
  /\ txn.by = "task" => epoch >= epochAtStart
  /\ txn.by = "worker" => deletions > 0

\* The history variable, and the initial certified epoch while the blob is certified.
SinceInv ==
  /\ since \in Nat
  /\ since > 0 <=> LiveCertified # {}
  /\ info.initial <= epoch
  /\ (since > 0 /\ info.version # "Invalid" /\ epochAtStart = 0) => info.initial = since

TablesInv == TypeInv /\ ObjectsInv /\ TrackedInv /\ UntrackedInv /\ PoolsInv /\ Matches(info, table)
IInv == TablesInv /\ CollectedInv /\ TxnInv /\ SinceInv

-----------------------------------------------------------------------------
(* Counting entries *)

\* What a record contributes to the number of entries of kind k.
EntryWeight(r, k) == IF IsEntry(r, k) THEN 1 ELSE 0
CertifiedWeight(r, k) == IF IsCertifiedEntry(r, k) THEN 1 ELSE 0

(* Two sets that differ in one element at most.                            *)
LEMMA CardinalityOfChange ==
  ASSUME NEW S, IsFiniteSet(S), NEW T, NEW x, T \ {x} = S \ {x}
  PROVE  /\ Cardinality(S) \in Nat /\ Cardinality(T) \in Nat
         /\ (x \in S <=> x \in T) => Cardinality(T) = Cardinality(S)
         /\ x \notin S /\ x \in T => Cardinality(T) = Cardinality(S) + 1
         /\ x \in S /\ x \notin T => Cardinality(S) = Cardinality(T) + 1
  <1>1. IsFiniteSet(T)
    <2>1. IsFiniteSet(S \cup {x}) /\ T \subseteq S \cup {x}
      BY FS_AddElement
    <2> QED BY <2>1, FS_Subset
  <1>2. Cardinality(S) \in Nat /\ Cardinality(T) \in Nat
    BY <1>1, FS_CardinalityType
  <1>3. (x \in S <=> x \in T) => T = S
    OBVIOUS
  <1>4. x \notin S /\ x \in T => T = S \cup {x}
    OBVIOUS
  <1>5. x \in S /\ x \notin T => S = T \cup {x}
    OBVIOUS
  <1> QED
    BY <1>1, <1>2, <1>3, <1>4, <1>5, FS_AddElement

\* The table u is the table t with x at o.
Updated(t, u, o, x) ==
  /\ t \in Tables /\ u \in Tables /\ o \in Objects /\ u[o] = x
  /\ \A y \in Objects \ {o} : u[y] = t[y]

(* A table with one record replaced.                                       *)
LEMMA TableUpdate ==
  ASSUME NEW t \in Tables, NEW o \in Objects, NEW x \in Records
  PROVE  Updated(t, [t EXCEPT ![o] = x], o, x)
  BY DEF Tables, Updated

(* The numbers of entries, before and after a record is replaced.          *)
LEMMA CountUpdates ==
  ASSUME NEW t, NEW u, NEW o, NEW x, Updated(t, u, o, x), NEW k
  PROVE  /\ NumEntries(t, k) \in Nat /\ NumCertified(t, k) \in Nat
         /\ NumEntries(u, k) \in Nat /\ NumCertified(u, k) \in Nat
         /\ NumEntries(u, k) + EntryWeight(t[o], k) = NumEntries(t, k) + EntryWeight(x, k)
         /\ NumCertified(u, k) + CertifiedWeight(t[o], k)
              = NumCertified(t, k) + CertifiedWeight(x, k)
  <1>1. /\ u[o] = x /\ o \in Objects
        /\ \A y \in Objects \ {o} : u[y] = t[y]
    BY DEF Updated
  <1>2. IsFiniteSet(EntriesOf(t, k)) /\ IsFiniteSet(CertifiedOf(t, k))
    BY ObjectsAssumption, FS_Subset DEF EntriesOf, CertifiedOf
  <1>3. EntriesOf(u, k) \ {o} = EntriesOf(t, k) \ {o}
    BY <1>1 DEF EntriesOf
  <1>4. CertifiedOf(u, k) \ {o} = CertifiedOf(t, k) \ {o}
    BY <1>1 DEF CertifiedOf
  <1>5. /\ o \in EntriesOf(u, k) <=> IsEntry(x, k)
        /\ o \in EntriesOf(t, k) <=> IsEntry(t[o], k)
        /\ o \in CertifiedOf(u, k) <=> IsCertifiedEntry(x, k)
        /\ o \in CertifiedOf(t, k) <=> IsCertifiedEntry(t[o], k)
    BY <1>1 DEF EntriesOf, CertifiedOf
  <1>6. /\ NumEntries(t, k) \in Nat /\ NumEntries(u, k) \in Nat
        /\ NumEntries(u, k) + EntryWeight(t[o], k) = NumEntries(t, k) + EntryWeight(x, k)
    <2> DEFINE S == EntriesOf(t, k)
               T == EntriesOf(u, k)
    <2> HIDE DEF S, T
    <2>1. IsFiniteSet(S) /\ T \ {o} = S \ {o}
      BY <1>2, <1>3 DEF S, T
    <2>2. /\ Cardinality(S) \in Nat /\ Cardinality(T) \in Nat
          /\ (o \in S <=> o \in T) => Cardinality(T) = Cardinality(S)
          /\ o \notin S /\ o \in T => Cardinality(T) = Cardinality(S) + 1
          /\ o \in S /\ o \notin T => Cardinality(S) = Cardinality(T) + 1
      BY ONLY <2>1, CardinalityOfChange
    <2>3. /\ EntryWeight(t[o], k) = IF o \in S THEN 1 ELSE 0
          /\ EntryWeight(x, k) = IF o \in T THEN 1 ELSE 0
      BY <1>5 DEF EntryWeight, S, T
    <2>4. Cardinality(T) + EntryWeight(t[o], k) = Cardinality(S) + EntryWeight(x, k)
      BY ONLY <2>2, <2>3
    <2> QED BY <2>2, <2>4 DEF NumEntries, S, T
  <1>7. /\ NumCertified(t, k) \in Nat /\ NumCertified(u, k) \in Nat
        /\ NumCertified(u, k) + CertifiedWeight(t[o], k)
             = NumCertified(t, k) + CertifiedWeight(x, k)
    <2> DEFINE S == CertifiedOf(t, k)
               T == CertifiedOf(u, k)
    <2> HIDE DEF S, T
    <2>1. IsFiniteSet(S) /\ T \ {o} = S \ {o}
      BY <1>2, <1>4 DEF S, T
    <2>2. /\ Cardinality(S) \in Nat /\ Cardinality(T) \in Nat
          /\ (o \in S <=> o \in T) => Cardinality(T) = Cardinality(S)
          /\ o \notin S /\ o \in T => Cardinality(T) = Cardinality(S) + 1
          /\ o \in S /\ o \notin T => Cardinality(S) = Cardinality(T) + 1
      BY ONLY <2>1, CardinalityOfChange
    <2>3. /\ CertifiedWeight(t[o], k) = IF o \in S THEN 1 ELSE 0
          /\ CertifiedWeight(x, k) = IF o \in T THEN 1 ELSE 0
      BY <1>5 DEF CertifiedWeight, S, T
    <2>4. Cardinality(T) + CertifiedWeight(t[o], k) = Cardinality(S) + CertifiedWeight(x, k)
      BY ONLY <2>2, <2>3
    <2> QED BY <2>2, <2>4 DEF NumCertified, S, T
  <1> QED
    BY <1>6, <1>7

(* An entry is counted, and so is a certified one.                         *)
LEMMA EntriesCount ==
  ASSUME NEW t \in Tables, NEW k
  PROVE  /\ NumEntries(t, k) \in Nat /\ NumCertified(t, k) \in Nat
         /\ NumEntries(t, k) = 0 <=> \A o \in Objects : ~ IsEntry(t[o], k)
         /\ NumCertified(t, k) = 0 <=> \A o \in Objects : ~ IsCertifiedEntry(t[o], k)
  <1>1. IsFiniteSet(EntriesOf(t, k)) /\ IsFiniteSet(CertifiedOf(t, k))
    BY ObjectsAssumption, FS_Subset DEF EntriesOf, CertifiedOf
  <1>2. /\ NumEntries(t, k) = 0 <=> EntriesOf(t, k) = {}
        /\ NumCertified(t, k) = 0 <=> CertifiedOf(t, k) = {}
    BY <1>1, FS_EmptySet DEF NumEntries, NumCertified
  <1>3. NumEntries(t, k) \in Nat /\ NumCertified(t, k) \in Nat
    BY <1>1, FS_CardinalityType DEF NumEntries, NumCertified
  <1> QED
    BY <1>2, <1>3 DEF EntriesOf, CertifiedOf

(* There are more entries than certified ones if one is not certified.     *)
LEMMA MoreEntries ==
  ASSUME NEW t \in Tables, NEW k, NEW o \in Objects, IsEntry(t[o], k), ~ IsCertifiedEntry(t[o], k)
  PROVE  NumEntries(t, k) > NumCertified(t, k)
  <1>1. IsFiniteSet(EntriesOf(t, k))
    BY ObjectsAssumption, FS_Subset DEF EntriesOf
  <1>2. CertifiedOf(t, k) \subseteq EntriesOf(t, k)
    BY DEF CertifiedOf, EntriesOf, IsEntry, IsCertifiedEntry
  <1>3. CertifiedOf(t, k) # EntriesOf(t, k)
    BY DEF CertifiedOf, EntriesOf
  <1>4. Cardinality(CertifiedOf(t, k)) < Cardinality(EntriesOf(t, k))
    <2>1. /\ Cardinality(CertifiedOf(t, k)) <= Cardinality(EntriesOf(t, k))
          /\ Cardinality(CertifiedOf(t, k)) # Cardinality(EntriesOf(t, k))
      BY <1>1, <1>2, <1>3, FS_Subset
    <2>2. Cardinality(CertifiedOf(t, k)) \in Nat /\ Cardinality(EntriesOf(t, k)) \in Nat
      BY EntriesCount DEF NumEntries, NumCertified
    <2> QED BY ONLY <2>1, <2>2
  <1> QED
    BY <1>4, EntriesCount DEF NumEntries, NumCertified

-----------------------------------------------------------------------------
(* One operand, merged into a valid aggregate and into the table *)

\* What the end epochs of the entries of kind k of u may be.
EntriesKept(t, u, k) ==
  /\ \A y \in EntriesOf(u, k) : y \in EntriesOf(t, k) /\ u[y].end = t[y].end
  /\ \A y \in CertifiedOf(u, k) : y \in CertifiedOf(t, k) /\ u[y].end = t[y].end

(* Aggregates with the same end epochs, for tables with the same entries.  *)
LEMMA SameEndsOfPermanent ==
  ASSUME NEW j, NEW r, NEW t, NEW u, EndsOfPermanent(j, t), EntriesKept(t, u, "permanent"),
         r.permanent = j.permanent, r.permanentCertified = j.permanentCertified
  PROVE  EndsOfPermanent(r, u)
  BY DEF EndsOfPermanent, EntriesKept

LEMMA SameEndsOfDeletable ==
  ASSUME NEW j, NEW r, NEW t, NEW u, EndsOfDeletable(j, t), EntriesKept(t, u, "deletable"),
         r.version \in {j.version, "V2"}, r.version = j.version =>
         r.latestRegistered = j.latestRegistered /\ r.latestCertified = j.latestCertified
  PROVE  EndsOfDeletable(r, u)
  BY DEF EndsOfDeletable, EntriesKept

\* The fields of a valid aggregate that count deletable, permanent and pooled objects.
SameDeletable(j, r) ==
  r.deletable = j.deletable /\ r.deletableCertified = j.deletableCertified
SameLatest(j, r) ==
  r.latestRegistered = j.latestRegistered /\ r.latestCertified = j.latestCertified
SamePermanent(j, r) ==
  r.permanent = j.permanent /\ r.permanentCertified = j.permanentCertified
SamePooled(j, r) == r.pooled = j.pooled /\ r.pooledCertified = j.pooledCertified

(* The types of the fields of an aggregate.                                *)
LEMMA FieldTypes ==
  ASSUME NEW j \in Infos
  PROVE  /\ j.initial \in Nat /\ j.deletable \in Nat /\ j.deletableCertified \in Nat
         /\ j.permanent \in PermanentInfos /\ j.permanentCertified \in PermanentInfos
         /\ j.latestRegistered \in Nat /\ j.latestCertified \in Nat
         /\ j.pooled \in Nat /\ j.pooledCertified \in Nat
  BY DEF Infos

(* A registration.                                                         *)
LEMMA RegisterAgrees ==
  ASSUME NEW j \in Infos, Valid(j), NEW t, Agrees(j, t), NEW o, t[o] = NoEntry,
         NEW x \in Records, x.kind \in ObjectKinds, x.certified = 0,
         NEW u, Updated(t, u, o, x),
         NEW op, op.kind = x.kind, op.end = x.end,
         NEW r, r = MergeRegister(j, op)
  PROVE  r \in Infos /\ Valid(r) /\ Agrees(r, u) /\ r.initial = j.initial
  <1>1. u[o] = x /\ x # NoEntry /\ o \in Objects /\ \A y \in Objects \ {o} : u[y] = t[y]
    BY DEF Updated, NoEntry, NoObject, ObjectKinds
  <1>2. \A k \in ObjectKinds :
          /\ NumEntries(t, k) \in Nat /\ NumCertified(t, k) \in Nat
          /\ NumEntries(u, k) = NumEntries(t, k) + (IF k = x.kind THEN 1 ELSE 0)
          /\ NumCertified(u, k) = NumCertified(t, k)
    <2> SUFFICES ASSUME NEW k \in ObjectKinds
                 PROVE  /\ NumEntries(t, k) \in Nat /\ NumCertified(t, k) \in Nat
                        /\ NumEntries(u, k) = NumEntries(t, k) + (IF k = x.kind THEN 1 ELSE 0)
                        /\ NumCertified(u, k) = NumCertified(t, k)
      OBVIOUS
    <2>1. /\ EntryWeight(t[o], k) = 0 /\ CertifiedWeight(t[o], k) = 0
          /\ EntryWeight(x, k) = (IF k = x.kind THEN 1 ELSE 0) /\ CertifiedWeight(x, k) = 0
      BY <1>1 DEF EntryWeight, CertifiedWeight, IsEntry, IsCertifiedEntry
    <2>2. /\ NumEntries(t, k) \in Nat /\ NumCertified(t, k) \in Nat
          /\ NumEntries(u, k) \in Nat /\ NumCertified(u, k) \in Nat
          /\ NumEntries(u, k) + EntryWeight(t[o], k) = NumEntries(t, k) + EntryWeight(x, k)
          /\ NumCertified(u, k) + CertifiedWeight(t[o], k)
               = NumCertified(t, k) + CertifiedWeight(x, k)
      BY CountUpdates
    <2> QED BY <2>1, <2>2
  <1>3. AnyCertified(u) <=> AnyCertified(t)
    BY <1>1 DEF AnyCertified
  <1>4. \A k \in ObjectKinds : \A y \in CertifiedOf(u, k) : y \in CertifiedOf(t, k) /\ u[y] = t[y]
    BY <1>1 DEF CertifiedOf, IsCertifiedEntry
  <1>5. \A k \in ObjectKinds : \A y \in EntriesOf(u, k) :
          \/ y = o /\ k = x.kind
          \/ y \in EntriesOf(t, k) /\ u[y] = t[y]
    BY <1>1 DEF EntriesOf, IsEntry
  <1>6. \A k \in ObjectKinds : k # x.kind => EntriesKept(t, u, k)
    BY <1>4, <1>5 DEF EntriesKept
  <1>7. \A y \in Objects : t[y].end \in Nat
    BY DEF Tables, Records, Updated
  <1>8. x.end \in Nat
    BY DEF Records
  <1>9. CASE x.kind = "deletable"
    <2>1. r = [j EXCEPT !.deletable = @ + 1, !.latestRegistered = Seen(j, @, x.end)]
      BY <1>9 DEF MergeRegister
    <2>2. Seen(j, j.latestRegistered, x.end) \in Nat /\ j.deletable + 1 \in Nat
      BY <1>8, FieldTypes DEF Seen, Later
    <2>3. /\ r.version = j.version /\ r.initial = j.initial
          /\ r.deletable = j.deletable + 1 /\ r.deletableCertified = j.deletableCertified
          /\ SamePermanent(j, r) /\ SamePooled(j, r)
          /\ r.latestRegistered = Seen(j, j.latestRegistered, x.end)
          /\ r.latestCertified = j.latestCertified
      BY <2>1 DEF Infos, SamePermanent, SamePooled
    <2>4. r \in Infos
      BY <2>1, <2>2 DEF Infos
    <2>5. CountsMatch(r, u)
      BY <1>2, <1>9, <2>3 DEF Agrees, CountsMatch, ObjectKinds, SamePermanent, SamePooled
    <2>6. EndsOfPermanent(r, u)
      BY <1>6, <1>9, <2>3, SameEndsOfPermanent DEF Agrees, ObjectKinds, SamePermanent
    <2>7. EndsOfDeletable(r, u)
      <3> SUFFICES ASSUME r.version = "V1"
                   PROVE  /\ \A y \in EntriesOf(u, "deletable") : r.latestRegistered >= u[y].end
                          /\ \A y \in CertifiedOf(u, "deletable") : r.latestCertified >= u[y].end
        BY DEF EndsOfDeletable
      <3>1. /\ \A y \in EntriesOf(t, "deletable") : j.latestRegistered >= t[y].end
            /\ \A y \in CertifiedOf(t, "deletable") : j.latestCertified >= t[y].end
        BY <2>3 DEF Agrees, EndsOfDeletable
      <3>2. /\ r.latestRegistered = Later(j.latestRegistered, x.end)
            /\ r.latestCertified = j.latestCertified
        BY <2>3 DEF Seen
      <3>3. \A y \in EntriesOf(t, "deletable") : y \in Objects
        BY DEF EntriesOf
      <3>4. \A y \in EntriesOf(u, "deletable") : r.latestRegistered >= u[y].end
        BY <1>1, <1>5, <1>7, <1>8, <3>1, <3>2, <3>3, FieldTypes DEF Later, ObjectKinds
      <3> QED BY <1>4, <3>1, <3>2, <3>4 DEF ObjectKinds
    <2> QED BY <1>3, <2>3, <2>4, <2>5, <2>6, <2>7 DEF Agrees, InitialMatches, Valid
  <1>10. CASE x.kind = "permanent"
    <2>1. r = [j EXCEPT !.permanent = UpdatePermanent(@, x.end, 1)]
      BY <1>10 DEF MergeRegister
    <2>2. /\ UpdatePermanent(j.permanent, x.end, 1) \in PermanentInfos
          /\ UpdatePermanent(j.permanent, x.end, 1).count = j.permanent.count + 1
          /\ UpdatePermanent(j.permanent, x.end, 1).end = Later(j.permanent.end, x.end)
      BY <1>8, FieldTypes DEF PermanentInfos, UpdatePermanent, Later
    <2>3. /\ r.version = j.version /\ r.initial = j.initial
          /\ r.permanent = UpdatePermanent(j.permanent, x.end, 1)
          /\ r.permanentCertified = j.permanentCertified
          /\ SameDeletable(j, r) /\ SameLatest(j, r) /\ SamePooled(j, r)
      BY <2>1 DEF Infos, SameDeletable, SameLatest, SamePooled
    <2>4. r \in Infos
      BY <2>1, <2>2 DEF Infos
    <2>5. CountsMatch(r, u)
      BY <1>2, <1>10, <2>2, <2>3 DEF Agrees, CountsMatch, ObjectKinds, SameDeletable, SamePooled
    <2>6. EndsOfPermanent(r, u)
      <3>1. /\ j.permanent.count \in Nat /\ j.permanent.end \in Nat
            /\ r.permanent.count = j.permanent.count + 1
            /\ r.permanent.end = Later(j.permanent.end, x.end)
        BY <2>2, <2>3, FieldTypes DEF PermanentInfos
      <3>2. \A y \in EntriesOf(t, "permanent") : y \in Objects /\ j.permanent.end >= t[y].end
        BY DEF Agrees, EndsOfPermanent, EntriesOf
      <3>3. \A y \in EntriesOf(u, "permanent") : r.permanent.end >= u[y].end
        BY <1>1, <1>5, <1>7, <1>8, <3>1, <3>2 DEF Later, ObjectKinds
      <3>4. \A y \in CertifiedOf(u, "permanent") : r.permanentCertified.end >= u[y].end
        BY <1>4, <2>3 DEF Agrees, EndsOfPermanent, ObjectKinds
      <3> QED BY <2>3, <3>1, <3>3, <3>4 DEF Agrees, EndsOfPermanent
    <2>7. EndsOfDeletable(r, u)
      BY <1>6, <1>10, <2>3, SameEndsOfDeletable DEF Agrees, ObjectKinds, SameLatest
    <2> QED BY <1>3, <2>3, <2>4, <2>5, <2>6, <2>7 DEF Agrees, InitialMatches, Valid
  <1>11. CASE x.kind = "pooled"
    <2>1. r = [ToV2(j) EXCEPT !.pooled = @ + 1]
      BY <1>11 DEF MergeRegister
    <2>2. /\ ToV2(j) \in Infos /\ ToV2(j).version = "V2" /\ ToV2(j).initial = j.initial
          /\ SameDeletable(j, ToV2(j)) /\ SamePermanent(j, ToV2(j)) /\ SamePooled(j, ToV2(j))
      BY DEF Infos, ToV2, SameDeletable, SamePermanent, SamePooled
    <2>3. /\ r \in Infos /\ r.version = "V2" /\ r.initial = j.initial
          /\ SameDeletable(j, r) /\ SamePermanent(j, r)
          /\ r.pooled = j.pooled + 1 /\ r.pooledCertified = j.pooledCertified
      BY <2>1, <2>2 DEF Infos, SameDeletable, SamePermanent, SamePooled
    <2>5. CountsMatch(r, u)
      BY <1>2, <1>11, <2>3 DEF Agrees, CountsMatch, ObjectKinds, SameDeletable, SamePermanent
    <2>6. EndsOfPermanent(r, u)
      BY <1>6, <1>11, <2>3, SameEndsOfPermanent DEF Agrees, ObjectKinds, SamePermanent
    <2>7. EndsOfDeletable(r, u)
      BY <2>3 DEF EndsOfDeletable
    <2> QED BY <1>3, <2>3, <2>5, <2>6, <2>7 DEF Agrees, InitialMatches, Valid
  <1> QED
    BY <1>9, <1>10, <1>11 DEF ObjectKinds

(* The conversion to V2 keeps the counters.                                *)
LEMMA ToV2Agrees ==
  ASSUME NEW j \in Infos, NEW t, Agrees(j, t)
  PROVE  /\ ToV2(j) \in Infos /\ ToV2(j).version = "V2" /\ Agrees(ToV2(j), t)
         /\ ToV2(j).initial = j.initial
         /\ SameDeletable(j, ToV2(j)) /\ SamePermanent(j, ToV2(j)) /\ SamePooled(j, ToV2(j))
  <1>1. /\ ToV2(j) \in Infos /\ ToV2(j).version = "V2" /\ ToV2(j).initial = j.initial
        /\ SameDeletable(j, ToV2(j)) /\ SamePermanent(j, ToV2(j)) /\ SamePooled(j, ToV2(j))
    BY DEF Infos, ToV2, SameDeletable, SamePermanent, SamePooled
  <1>2. /\ CountsMatch(ToV2(j), t) /\ EndsOfPermanent(ToV2(j), t)
        /\ EndsOfDeletable(ToV2(j), t) /\ InitialMatches(ToV2(j), t)
    BY <1>1 DEF Agrees, CountsMatch, EndsOfPermanent, EndsOfDeletable, InitialMatches,
                SameDeletable, SamePermanent, SamePooled
  <1> QED BY <1>1, <1>2 DEF Agrees

(* The numbers of entries when an entry is replaced by one of its kind.    *)
LEMMA CountsOfReplaced ==
  ASSUME NEW t, NEW u, NEW o, NEW x, Updated(t, u, o, x), t[o] # NoEntry, x # NoEntry,
         x.kind = t[o].kind, NEW k
  PROVE  /\ NumEntries(t, k) \in Nat /\ NumCertified(t, k) \in Nat
         /\ NumEntries(u, k) = NumEntries(t, k)
         /\ NumCertified(u, k) + CertifiedWeight(t[o], k)
              = NumCertified(t, k) + CertifiedWeight(x, k)
         /\ NumCertified(u, k) \in Nat
  <1>1. EntryWeight(t[o], k) = EntryWeight(x, k) /\ EntryWeight(x, k) \in {0, 1}
    BY DEF EntryWeight, IsEntry
  <1>2. /\ NumEntries(t, k) \in Nat /\ NumCertified(t, k) \in Nat
        /\ NumEntries(u, k) \in Nat /\ NumCertified(u, k) \in Nat
        /\ NumEntries(u, k) + EntryWeight(t[o], k) = NumEntries(t, k) + EntryWeight(x, k)
        /\ NumCertified(u, k) + CertifiedWeight(t[o], k)
             = NumCertified(t, k) + CertifiedWeight(x, k)
    BY CountUpdates
  <1>3. NumEntries(u, k) = NumEntries(t, k)
    BY ONLY <1>1, <1>2
  <1> QED BY <1>2, <1>3

(* A certification.                                                        *)
LEMMA CertifyAgrees ==
  ASSUME NEW j \in Infos, Valid(j), NEW t, Agrees(j, t), NEW o, t[o] # NoEntry,
         t[o].certified = 0,
         NEW x \in Records, x.kind = t[o].kind, x.kind \in ObjectKinds, x.end = t[o].end,
         x.certified > 0, NEW u, Updated(t, u, o, x),
         NEW op, op.kind = x.kind, op.end = x.end, op.epoch \in Nat \ {0},
         NEW r, r = MergeCertify(j, op)
  PROVE  /\ r \in Infos /\ Valid(r) /\ Agrees(r, u)
         /\ \E i \in Infos : /\ Valid(i) /\ Agrees(i, t) /\ i.initial = j.initial
                             /\ r.initial = InitialCertified(i, op)
  <1>1. /\ u[o] = x /\ x # NoEntry /\ o \in Objects
        /\ \A y \in Objects \ {o} : u[y] = t[y]
        /\ t \in Tables
    BY DEF Updated, NoEntry, NoObject, ObjectKinds
  <1>2. \A k \in ObjectKinds :
          /\ NumEntries(t, k) \in Nat /\ NumCertified(t, k) \in Nat
          /\ NumEntries(u, k) = NumEntries(t, k)
          /\ NumCertified(u, k) = NumCertified(t, k) + (IF k = x.kind THEN 1 ELSE 0)
    <2> SUFFICES ASSUME NEW k \in ObjectKinds
                 PROVE  /\ NumEntries(t, k) \in Nat /\ NumCertified(t, k) \in Nat
                        /\ NumEntries(u, k) = NumEntries(t, k)
                        /\ NumCertified(u, k)
                             = NumCertified(t, k) + (IF k = x.kind THEN 1 ELSE 0)
      OBVIOUS
    <2>1. /\ CertifiedWeight(t[o], k) = 0
          /\ CertifiedWeight(x, k) = (IF k = x.kind THEN 1 ELSE 0)
      BY <1>1 DEF CertifiedWeight, IsCertifiedEntry
    <2>2. /\ NumEntries(t, k) \in Nat /\ NumCertified(t, k) \in Nat
          /\ NumEntries(u, k) = NumEntries(t, k)
          /\ NumCertified(u, k) + CertifiedWeight(t[o], k)
               = NumCertified(t, k) + CertifiedWeight(x, k)
          /\ NumCertified(u, k) \in Nat
      BY <1>1, CountsOfReplaced
    <2> QED BY <2>1, <2>2
  <1>3. AnyCertified(u)
    BY <1>1 DEF AnyCertified
  <1>4. \A k \in ObjectKinds : \A y \in CertifiedOf(u, k) :
          \/ y = o /\ k = x.kind
          \/ y \in CertifiedOf(t, k) /\ u[y] = t[y]
    BY <1>1 DEF CertifiedOf, IsCertifiedEntry
  <1>5. \A k \in ObjectKinds : \A y \in EntriesOf(u, k) :
          y \in EntriesOf(t, k) /\ u[y].end = t[y].end
    BY <1>1 DEF EntriesOf, IsEntry
  <1>6. \A k \in ObjectKinds : k # x.kind => EntriesKept(t, u, k)
    BY <1>4, <1>5 DEF EntriesKept
  <1>7. \A y \in Objects : t[y].end \in Nat
    BY DEF Tables, Records, Updated
  <1>8. x.end \in Nat
    BY DEF Records
  <1>9. NumEntries(t, x.kind) > NumCertified(t, x.kind)
    <2>1. IsEntry(t[o], x.kind) /\ ~ IsCertifiedEntry(t[o], x.kind)
      BY DEF IsEntry, IsCertifiedEntry
    <2> QED BY <1>1, <2>1, MoreEntries
  <1>10. \A i \in Infos : InitialCertified(i, op) \in Nat \ {0}
    <2> SUFFICES ASSUME NEW i \in Infos PROVE InitialCertified(i, op) \in Nat \ {0}
      OBVIOUS
    <2>1. i.initial \in Nat
      BY FieldTypes
    <2> QED BY <2>1 DEF InitialCertified
  <1>11. CASE x.kind = "deletable"
    <2> DEFINE n == InitialCertified(j, op)
    <2> HIDE DEF n
    <2>1. r = [[j EXCEPT !.initial = n]
                EXCEPT !.deletableCertified = @ + 1, !.latestCertified = Seen(j, @, x.end)]
      <3>1. MayCertify(j, op)
        BY <1>9, <1>11 DEF MayCertify, Agrees, CountsMatch
      <3> QED BY <1>11, <3>1 DEF MergeCertify, n
    <2>2. /\ Seen(j, j.latestCertified, x.end) \in Nat /\ j.deletableCertified + 1 \in Nat
          /\ n \in Nat \ {0}
      BY <1>8, <1>10, FieldTypes DEF Seen, Later, n
    <2>3. /\ r.version = j.version /\ r.initial = n
          /\ r.deletable = j.deletable /\ r.deletableCertified = j.deletableCertified + 1
          /\ SamePermanent(j, r) /\ SamePooled(j, r)
          /\ r.latestRegistered = j.latestRegistered
          /\ r.latestCertified = Seen(j, j.latestCertified, x.end)
      BY <2>1 DEF Infos, SamePermanent, SamePooled
    <2>4. r \in Infos
      BY <2>1, <2>2 DEF Infos
    <2>5. CountsMatch(r, u)
      BY <1>2, <1>11, <2>3 DEF Agrees, CountsMatch, ObjectKinds, SamePermanent, SamePooled
    <2>6. EndsOfPermanent(r, u)
      BY <1>6, <1>11, <2>3, SameEndsOfPermanent DEF Agrees, ObjectKinds, SamePermanent
    <2>7. EndsOfDeletable(r, u)
      <3> SUFFICES ASSUME r.version = "V1"
                   PROVE  /\ \A y \in EntriesOf(u, "deletable") : r.latestRegistered >= u[y].end
                          /\ \A y \in CertifiedOf(u, "deletable") : r.latestCertified >= u[y].end
        BY DEF EndsOfDeletable
      <3>1. /\ \A y \in EntriesOf(t, "deletable") : j.latestRegistered >= t[y].end
            /\ \A y \in CertifiedOf(t, "deletable") : j.latestCertified >= t[y].end
        BY <2>3 DEF Agrees, EndsOfDeletable
      <3>2. /\ r.latestCertified = Later(j.latestCertified, x.end)
            /\ r.latestRegistered = j.latestRegistered
        BY <2>3 DEF Seen
      <3>3. \A y \in CertifiedOf(t, "deletable") : y \in Objects
        BY DEF CertifiedOf
      <3>4. \A y \in CertifiedOf(u, "deletable") : r.latestCertified >= u[y].end
        BY <1>1, <1>4, <1>7, <1>8, <3>1, <3>2, <3>3, FieldTypes DEF Later, ObjectKinds
      <3> QED BY <1>5, <3>1, <3>2, <3>4 DEF ObjectKinds
    <2>8. InitialMatches(r, u)
      BY <1>3, <2>2, <2>3 DEF InitialMatches
    <2> QED BY <2>3, <2>4, <2>5, <2>6, <2>7, <2>8 DEF Agrees, Valid, n
  <1>12. CASE x.kind = "permanent"
    <2> DEFINE n == InitialCertified(j, op)
               m == UpdatePermanent(j.permanentCertified, x.end, 1)
    <2> HIDE DEF n, m
    <2>0. j.permanent.end >= x.end
      BY <1>1, <1>12 DEF Agrees, EndsOfPermanent, EntriesOf, IsEntry
    <2>1. r = [[j EXCEPT !.initial = n] EXCEPT !.permanentCertified = m]
      <3>1. MayCertify(j, op)
        <4>1. j.permanent.end \in Nat
          BY FieldTypes DEF PermanentInfos
        <4>2. op.end <= j.permanent.end
          BY <1>8, <2>0, <4>1
        <4> QED BY <1>9, <1>12, <4>2 DEF MayCertify, Agrees, CountsMatch
      <3> QED BY <1>12, <3>1 DEF MergeCertify, n, m
    <2>2. /\ m \in PermanentInfos
          /\ m.count = j.permanentCertified.count + 1
          /\ m.end = Later(j.permanentCertified.end, x.end)
          /\ n \in Nat \ {0}
      BY <1>8, <1>10, FieldTypes DEF PermanentInfos, UpdatePermanent, Later, m, n
    <2>3. /\ r.version = j.version /\ r.initial = n
          /\ r.permanent = j.permanent /\ r.permanentCertified = m
          /\ SameDeletable(j, r) /\ SameLatest(j, r) /\ SamePooled(j, r)
      BY <2>1 DEF Infos, SameDeletable, SameLatest, SamePooled
    <2>4. r \in Infos
      BY <2>1, <2>2 DEF Infos
    <2>5. CountsMatch(r, u)
      BY <1>2, <1>12, <2>2, <2>3 DEF Agrees, CountsMatch, ObjectKinds, SameDeletable, SamePooled
    <2>6. EndsOfPermanent(r, u)
      <3>1. /\ j.permanentCertified.count \in Nat /\ j.permanentCertified.end \in Nat
            /\ r.permanentCertified.count = j.permanentCertified.count + 1
            /\ r.permanentCertified.end = Later(j.permanentCertified.end, x.end)
        BY <2>2, <2>3, FieldTypes DEF PermanentInfos
      <3>2. \A y \in CertifiedOf(t, "permanent") : y \in Objects /\ j.permanentCertified.end >= t[y].end
        BY DEF Agrees, EndsOfPermanent, CertifiedOf
      <3>3. \A y \in CertifiedOf(u, "permanent") : r.permanentCertified.end >= u[y].end
        BY <1>1, <1>4, <1>7, <1>8, <3>1, <3>2 DEF Later, ObjectKinds
      <3>4. \A y \in EntriesOf(u, "permanent") : r.permanent.end >= u[y].end
        BY <1>5, <2>3 DEF Agrees, EndsOfPermanent, ObjectKinds
      <3> QED BY <2>3, <3>1, <3>3, <3>4 DEF Agrees, EndsOfPermanent
    <2>7. EndsOfDeletable(r, u)
      BY <1>6, <1>12, <2>3, SameEndsOfDeletable DEF Agrees, ObjectKinds, SameLatest
    <2>8. InitialMatches(r, u)
      BY <1>3, <2>2, <2>3 DEF InitialMatches
    <2> QED BY <2>3, <2>4, <2>5, <2>6, <2>7, <2>8 DEF Agrees, Valid, n
  <1>13. CASE x.kind = "pooled"
    <2>1. PICK i : i = ToV2(j)
      OBVIOUS
    <2>2. /\ i \in Infos /\ i.version = "V2" /\ Agrees(i, t) /\ i.initial = j.initial
      BY <2>1, ToV2Agrees
    <2> DEFINE n == InitialCertified(i, op)
    <2> HIDE DEF n
    <2>3. r = [[i EXCEPT !.initial = n] EXCEPT !.pooledCertified = @ + 1]
      <3>1. MayCertify(i, op)
        BY <1>9, <1>13, <2>2 DEF MayCertify, Agrees, CountsMatch
      <3> QED BY <1>13, <2>1, <3>1 DEF MergeCertify, n
    <2>4. n \in Nat \ {0} /\ i.pooledCertified + 1 \in Nat
      BY <1>10, <2>2, FieldTypes DEF n
    <2>5. /\ r.version = "V2" /\ r.initial = n
          /\ SameDeletable(i, r) /\ SamePermanent(i, r)
          /\ r.pooled = i.pooled /\ r.pooledCertified = i.pooledCertified + 1
      BY <2>2, <2>3 DEF Infos, SameDeletable, SamePermanent
    <2>6. r \in Infos
      BY <2>2, <2>3, <2>4 DEF Infos
    <2>7. CountsMatch(r, u)
      BY <1>2, <1>13, <2>2, <2>5 DEF Agrees, CountsMatch, ObjectKinds, SameDeletable, SamePermanent
    <2>8. EndsOfPermanent(r, u)
      BY <1>6, <1>13, <2>2, <2>5, SameEndsOfPermanent DEF Agrees, ObjectKinds, SamePermanent
    <2>9. EndsOfDeletable(r, u) /\ InitialMatches(r, u)
      BY <1>3, <2>4, <2>5 DEF EndsOfDeletable, InitialMatches
    <2> QED BY <2>2, <2>5, <2>6, <2>7, <2>8, <2>9 DEF Agrees, Valid, n
  <1> QED
    BY <1>11, <1>12, <1>13 DEF ObjectKinds

(* An extension of a certified object.                                     *)
LEMMA ExtendAgrees ==
  ASSUME NEW j \in Infos, Valid(j), NEW t, Agrees(j, t), NEW o, t[o] # NoEntry,
         t[o].certified > 0,
         NEW x \in Records, x.kind = t[o].kind, x.kind \in {"deletable", "permanent"},
         x.end >= t[o].end, x.certified = t[o].certified, NEW u, Updated(t, u, o, x),
         NEW op, op.kind = x.kind, op.end = x.end,
         NEW r, r = MergeExtend(j, op)
  PROVE  r \in Infos /\ Valid(r) /\ Agrees(r, u) /\ r.initial = j.initial
  <1>1. /\ u[o] = x /\ x # NoEntry /\ o \in Objects
        /\ \A y \in Objects \ {o} : u[y] = t[y]
        /\ t \in Tables /\ x.kind \in ObjectKinds
    BY DEF Updated, NoEntry, NoObject, ObjectKinds
  <1>2. \A k \in ObjectKinds :
          /\ NumEntries(t, k) \in Nat /\ NumCertified(t, k) \in Nat
          /\ NumEntries(u, k) = NumEntries(t, k) /\ NumCertified(u, k) = NumCertified(t, k)
    <2> SUFFICES ASSUME NEW k \in ObjectKinds
                 PROVE  /\ NumEntries(t, k) \in Nat /\ NumCertified(t, k) \in Nat
                        /\ NumEntries(u, k) = NumEntries(t, k)
                        /\ NumCertified(u, k) = NumCertified(t, k)
      OBVIOUS
    <2>1. CertifiedWeight(t[o], k) = CertifiedWeight(x, k) /\ CertifiedWeight(x, k) \in {0, 1}
      BY <1>1 DEF CertifiedWeight, IsCertifiedEntry
    <2>2. /\ NumEntries(t, k) \in Nat /\ NumCertified(t, k) \in Nat
          /\ NumEntries(u, k) = NumEntries(t, k)
          /\ NumCertified(u, k) + CertifiedWeight(t[o], k)
               = NumCertified(t, k) + CertifiedWeight(x, k)
          /\ NumCertified(u, k) \in Nat
      BY <1>1, CountsOfReplaced
    <2>3. NumCertified(u, k) = NumCertified(t, k)
      BY ONLY <2>1, <2>2
    <2> QED BY <2>2, <2>3
  <1>3. AnyCertified(u) /\ AnyCertified(t)
    BY <1>1 DEF AnyCertified
  <1>4. \A k \in ObjectKinds : \A y \in CertifiedOf(u, k) :
          \/ y = o /\ k = x.kind /\ y \in CertifiedOf(t, k)
          \/ y \in CertifiedOf(t, k) /\ u[y] = t[y]
    BY <1>1 DEF CertifiedOf, IsCertifiedEntry
  <1>5. \A k \in ObjectKinds : \A y \in EntriesOf(u, k) :
          \/ y = o /\ k = x.kind /\ y \in EntriesOf(t, k)
          \/ y \in EntriesOf(t, k) /\ u[y] = t[y]
    BY <1>1 DEF EntriesOf, IsEntry
  <1>6. \A k \in ObjectKinds : k # x.kind => EntriesKept(t, u, k)
    BY <1>4, <1>5 DEF EntriesKept
  <1>7. \A y \in Objects : t[y].end \in Nat
    BY DEF Tables, Records, Updated
  <1>8. x.end \in Nat
    BY DEF Records
  <1>9. CASE x.kind = "deletable"
    <2>1. r = [j EXCEPT !.latestRegistered = Seen(j, @, x.end),
                        !.latestCertified = Seen(j, @, x.end)]
      BY <1>9 DEF MergeExtend
    <2>2. Seen(j, j.latestRegistered, x.end) \in Nat /\ Seen(j, j.latestCertified, x.end) \in Nat
      BY <1>8, FieldTypes DEF Seen, Later
    <2>3. /\ r.version = j.version /\ r.initial = j.initial
          /\ SameDeletable(j, r) /\ SamePermanent(j, r) /\ SamePooled(j, r)
          /\ r.latestRegistered = Seen(j, j.latestRegistered, x.end)
          /\ r.latestCertified = Seen(j, j.latestCertified, x.end)
      BY <2>1 DEF Infos, SamePermanent, SamePooled, SameDeletable
    <2>4. r \in Infos
      BY <2>1, <2>2 DEF Infos
    <2>5. CountsMatch(r, u)
      BY <1>2, <2>3 DEF Agrees, CountsMatch, ObjectKinds, SamePermanent, SamePooled, SameDeletable
    <2>6. EndsOfPermanent(r, u)
      BY <1>6, <1>9, <2>3, SameEndsOfPermanent DEF Agrees, ObjectKinds, SamePermanent
    <2>7. EndsOfDeletable(r, u)
      <3> SUFFICES ASSUME r.version = "V1"
                   PROVE  /\ \A y \in EntriesOf(u, "deletable") : r.latestRegistered >= u[y].end
                          /\ \A y \in CertifiedOf(u, "deletable") : r.latestCertified >= u[y].end
        BY DEF EndsOfDeletable
      <3>1. /\ \A y \in EntriesOf(t, "deletable") : j.latestRegistered >= t[y].end /\ y \in Objects
            /\ \A y \in CertifiedOf(t, "deletable") : j.latestCertified >= t[y].end /\ y \in Objects
        BY <2>3 DEF Agrees, EndsOfDeletable, EntriesOf, CertifiedOf
      <3>2. /\ r.latestCertified = Later(j.latestCertified, x.end)
            /\ r.latestRegistered = Later(j.latestRegistered, x.end)
        BY <2>3 DEF Seen
      <3>3. \A y \in CertifiedOf(u, "deletable") : r.latestCertified >= u[y].end
        BY <1>1, <1>4, <1>7, <1>8, <3>1, <3>2, FieldTypes DEF Later, ObjectKinds
      <3>4. \A y \in EntriesOf(u, "deletable") : r.latestRegistered >= u[y].end
        BY <1>1, <1>5, <1>7, <1>8, <3>1, <3>2, FieldTypes DEF Later, ObjectKinds
      <3> QED BY <3>3, <3>4
    <2> QED BY <1>3, <2>3, <2>4, <2>5, <2>6, <2>7 DEF Agrees, InitialMatches, Valid
  <1>10. CASE x.kind = "permanent"
    <2> DEFINE m == UpdatePermanent(j.permanent, x.end, 0)
               c == UpdatePermanent(j.permanentCertified, x.end, 0)
    <2> HIDE DEF m, c
    <2>0. /\ j.permanent.count \in Nat /\ j.permanent.end \in Nat
          /\ j.permanentCertified.count \in Nat /\ j.permanentCertified.end \in Nat
      BY FieldTypes DEF PermanentInfos
    <2>1. r = [j EXCEPT !.permanent = m, !.permanentCertified = c]
      <3>1. NumEntries(t, "permanent") # 0 /\ NumCertified(t, "permanent") # 0
        <4>1. IsEntry(t[o], "permanent") /\ IsCertifiedEntry(t[o], "permanent")
          BY <1>10 DEF IsEntry, IsCertifiedEntry
        <4> QED BY <1>1, <4>1, EntriesCount
      <3>2. j.permanent # NoPermanent /\ j.permanentCertified # NoPermanent
        BY <3>1 DEF Agrees, CountsMatch, NoPermanent
      <3> QED BY <1>10, <3>2 DEF MergeExtend, m, c
    <2>2. /\ m \in PermanentInfos /\ c \in PermanentInfos
          /\ m.count = j.permanent.count /\ m.end = Later(j.permanent.end, x.end)
          /\ c.count = j.permanentCertified.count
          /\ c.end = Later(j.permanentCertified.end, x.end)
      BY <1>8, <2>0 DEF PermanentInfos, UpdatePermanent, Later, m, c
    <2>3. /\ r.version = j.version /\ r.initial = j.initial
          /\ r.permanent = m /\ r.permanentCertified = c
          /\ SameDeletable(j, r) /\ SameLatest(j, r) /\ SamePooled(j, r)
      BY <2>1 DEF Infos, SameDeletable, SameLatest, SamePooled
    <2>4. r \in Infos
      BY <2>1, <2>2 DEF Infos
    <2>5. CountsMatch(r, u)
      BY <1>2, <2>2, <2>3 DEF Agrees, CountsMatch, ObjectKinds, SameDeletable, SamePooled
    <2>6. EndsOfPermanent(r, u)
      <3>1. /\ \A y \in EntriesOf(t, "permanent") : y \in Objects /\ j.permanent.end >= t[y].end
            /\ \A y \in CertifiedOf(t, "permanent") :
                 y \in Objects /\ j.permanentCertified.end >= t[y].end
        BY DEF Agrees, EndsOfPermanent, EntriesOf, CertifiedOf
      <3>2. \A y \in EntriesOf(u, "permanent") : m.end >= u[y].end
        BY <1>1, <1>5, <1>7, <1>8, <2>0, <2>2, <3>1 DEF Later, ObjectKinds
      <3>3. \A y \in CertifiedOf(u, "permanent") : c.end >= u[y].end
        BY <1>1, <1>4, <1>7, <1>8, <2>0, <2>2, <3>1 DEF Later, ObjectKinds
      <3>4. IsEntry(t[o], "permanent") /\ IsCertifiedEntry(t[o], "permanent")
        BY <1>10 DEF IsEntry, IsCertifiedEntry
      <3>5. NumEntries(t, "permanent") # 0 /\ NumCertified(t, "permanent") # 0
        BY <1>1, <3>4, EntriesCount
      <3>6. m.count # 0 /\ c.count # 0
        BY <2>2, <3>5 DEF Agrees, CountsMatch
      <3> QED BY <2>3, <3>2, <3>3, <3>6 DEF EndsOfPermanent
    <2>7. EndsOfDeletable(r, u)
      BY <1>6, <1>10, <2>3, SameEndsOfDeletable DEF Agrees, ObjectKinds, SameLatest
    <2> QED BY <1>3, <2>3, <2>4, <2>5, <2>6, <2>7 DEF Agrees, InitialMatches, Valid
  <1> QED
    BY <1>9, <1>10

(* The fields of an aggregate that UnsetInitial leaves alone, and the one that it does not. *)
LEMMA UnsetAgrees ==
  ASSUME NEW i \in Infos, NEW u \in Tables, CountsMatch(i, u), EndsOfPermanent(i, u),
         EndsOfDeletable(i, u), AnyCertified(u) => i.initial > 0,
         \A y \in Objects : u[y] # NoEntry => u[y].kind \in ObjectKinds,
         NEW r, r = UnsetInitial(i)
  PROVE  /\ r \in Infos /\ r.version = i.version /\ Agrees(r, u)
         /\ r.initial = IF AnyCertified(u) THEN i.initial ELSE 0
  <1>1. \A k : /\ NumCertified(u, k) \in Nat
               /\ NumCertified(u, k) = 0 <=> \A o \in Objects : ~ IsCertifiedEntry(u[o], k)
    BY EntriesCount
  <1>2. (i.deletableCertified = 0 /\ i.permanentCertified.count = 0 /\ i.pooledCertified = 0)
          <=> ~ AnyCertified(u)
    BY <1>1 DEF CountsMatch, AnyCertified, IsCertifiedEntry, ObjectKinds
  <1>3. i.permanentCertified = NoPermanent <=> i.permanentCertified.count = 0
    BY FieldTypes DEF EndsOfPermanent, NoPermanent, PermanentInfos
  <1>4. r = IF AnyCertified(u) THEN i ELSE [i EXCEPT !.initial = 0]
    BY <1>2, <1>3 DEF UnsetInitial
  <1>5. /\ r \in Infos /\ r.version = i.version
        /\ r.initial = IF AnyCertified(u) THEN i.initial ELSE 0
        /\ SameDeletable(i, r) /\ SameLatest(i, r) /\ SamePermanent(i, r) /\ SamePooled(i, r)
    BY <1>4 DEF Infos, SameDeletable, SameLatest, SamePermanent, SamePooled
  <1>6. CountsMatch(r, u) /\ EndsOfPermanent(r, u) /\ EndsOfDeletable(r, u)
    BY <1>5 DEF CountsMatch, EndsOfPermanent, EndsOfDeletable,
                SameDeletable, SameLatest, SamePermanent, SamePooled
  <1> QED BY <1>5, <1>6 DEF Agrees, InitialMatches

(* One permanent object less.                                              *)
LEMMA DecrementPermanent ==
  ASSUME NEW p \in PermanentInfos, p.count > 0
  PROVE  /\ Decrement(p) \in PermanentInfos
         /\ Decrement(p).count = p.count - 1
         /\ Decrement(p).count = 0 => Decrement(p).end = 0
         /\ Decrement(p).count > 0 => Decrement(p).end = p.end
  <1>1. p.count \in Nat /\ p.end \in Nat
    BY DEF PermanentInfos
  <1>2. CASE p.count = 1
    <2>1. Decrement(p) = NoPermanent
      BY <1>2 DEF Decrement
    <2> QED BY <1>2, <2>1 DEF NoPermanent, PermanentInfos
  <1>3. CASE p.count > 1
    <2>1. Decrement(p) = [p EXCEPT !.count = p.count - 1]
      BY <1>1, <1>3 DEF Decrement
    <2>2. Decrement(p).count = p.count - 1 /\ Decrement(p).end = p.end
      BY <2>1 DEF PermanentInfos
    <2>3. p.count - 1 \in Nat
      BY <1>1, <1>3
    <2>4. Decrement(p) \in PermanentInfos
      BY <2>1, <2>3 DEF PermanentInfos
    <2> QED BY <1>1, <1>3, <2>2, <2>4
  <1> QED BY <1>1, <1>2, <1>3

(* The removal of an entry: a deletion, or garbage collection.             *)
LEMMA RemoveAgrees ==
  ASSUME NEW j \in Infos, Valid(j), NEW t, Agrees(j, t), NEW o, t[o] # NoEntry,
         \A y \in Objects : t[y] # NoEntry => t[y].kind \in ObjectKinds,
         NEW u, Updated(t, u, o, NoEntry),
         NEW op, op.kind = t[o].kind, op.wasCertified = (t[o].certified > 0),
         NEW r, r = MergeRemove(j, op)
  PROVE  /\ r \in Infos /\ Valid(r) /\ Agrees(r, u)
         /\ r.initial = IF AnyCertified(u) THEN j.initial ELSE 0
  <1>1. /\ u[o] = NoEntry /\ o \in Objects /\ t \in Tables /\ u \in Tables
        /\ \A y \in Objects \ {o} : u[y] = t[y]
        /\ t[o].kind \in ObjectKinds
    BY DEF Updated
  <1> DEFINE w == CertifiedWeight(t[o], t[o].kind)
  <1> HIDE DEF w
  <1>2. w = (IF op.wasCertified THEN 1 ELSE 0) /\ w \in {0, 1}
    BY DEF CertifiedWeight, IsCertifiedEntry, w
  <1>3. \A k \in ObjectKinds :
          /\ NumEntries(t, k) \in Nat /\ NumCertified(t, k) \in Nat
          /\ NumEntries(u, k) \in Nat /\ NumCertified(u, k) \in Nat
          /\ NumEntries(t, k) = NumEntries(u, k) + (IF k = t[o].kind THEN 1 ELSE 0)
          /\ NumCertified(t, k) = NumCertified(u, k) + (IF k = t[o].kind THEN w ELSE 0)
    <2> SUFFICES ASSUME NEW k \in ObjectKinds
                 PROVE  /\ NumEntries(t, k) \in Nat /\ NumCertified(t, k) \in Nat
                        /\ NumEntries(u, k) \in Nat /\ NumCertified(u, k) \in Nat
                        /\ NumEntries(t, k) = NumEntries(u, k) + (IF k = t[o].kind THEN 1 ELSE 0)
                        /\ NumCertified(t, k)
                             = NumCertified(u, k) + (IF k = t[o].kind THEN w ELSE 0)
      OBVIOUS
    <2>1. /\ EntryWeight(t[o], k) = (IF k = t[o].kind THEN 1 ELSE 0)
          /\ CertifiedWeight(t[o], k) = (IF k = t[o].kind THEN w ELSE 0)
          /\ EntryWeight(NoEntry, k) = 0 /\ CertifiedWeight(NoEntry, k) = 0
      BY DEF EntryWeight, CertifiedWeight, IsEntry, IsCertifiedEntry, w
    <2>2. /\ NumEntries(t, k) \in Nat /\ NumCertified(t, k) \in Nat
          /\ NumEntries(u, k) \in Nat /\ NumCertified(u, k) \in Nat
          /\ NumEntries(u, k) + EntryWeight(t[o], k) = NumEntries(t, k) + EntryWeight(NoEntry, k)
          /\ NumCertified(u, k) + CertifiedWeight(t[o], k)
               = NumCertified(t, k) + CertifiedWeight(NoEntry, k)
      BY CountUpdates
    <2> QED BY <1>2, <2>1, <2>2
  <1>4. AnyCertified(u) => AnyCertified(t)
    BY <1>1 DEF AnyCertified
  <1>5. \A k : \A y \in EntriesOf(u, k) : y \in EntriesOf(t, k) /\ u[y] = t[y] /\ y \in Objects
    BY <1>1 DEF EntriesOf, IsEntry
  <1>6. \A k : \A y \in CertifiedOf(u, k) : y \in CertifiedOf(t, k) /\ u[y] = t[y] /\ y \in Objects
    BY <1>1 DEF CertifiedOf, IsCertifiedEntry
  <1>7. \A k : EntriesKept(t, u, k)
    BY <1>5, <1>6 DEF EntriesKept
  <1>8. \A y \in Objects : u[y] # NoEntry => u[y].kind \in ObjectKinds
    BY <1>1
  <1>9. AnyCertified(u) => j.initial > 0
    BY <1>4 DEF Agrees, InitialMatches
  <1>10. \A k \in ObjectKinds :
           /\ NumEntries(u, k) = 0 => EntriesOf(u, k) = {}
           /\ NumCertified(u, k) = 0 => CertifiedOf(u, k) = {}
    BY <1>1, EntriesCount DEF EntriesOf, CertifiedOf
  <1>11. SUFFICES \E i \in Infos : /\ Valid(i) /\ CountsMatch(i, u) /\ EndsOfPermanent(i, u)
                                   /\ EndsOfDeletable(i, u) /\ i.initial = j.initial
                                   /\ r = UnsetInitial(i)
    <2>1. PICK i \in Infos : /\ Valid(i) /\ CountsMatch(i, u) /\ EndsOfPermanent(i, u)
                             /\ EndsOfDeletable(i, u) /\ i.initial = j.initial
                             /\ r = UnsetInitial(i)
      BY <1>11
    <2>2. /\ r \in Infos /\ r.version = i.version /\ Agrees(r, u)
          /\ r.initial = IF AnyCertified(u) THEN i.initial ELSE 0
      BY <1>1, <1>8, <1>9, <2>1, UnsetAgrees
    <2> QED BY <2>1, <2>2 DEF Valid
  <1>12. CASE t[o].kind = "deletable"
    <2> DEFINE total == Less(j.deletable, 1)
               certified == Less(j.deletableCertified, w)
    <2> HIDE DEF total, certified
    <2>1. /\ total \in Nat /\ certified \in Nat
          /\ total = NumEntries(u, "deletable") /\ certified = NumCertified(u, "deletable")
      BY <1>2, <1>3, <1>12 DEF Agrees, CountsMatch, ObjectKinds, Less, total, certified
    <2>2. PICK i : i = [j EXCEPT !.deletable = total, !.deletableCertified = certified,
                                 !.latestRegistered = Kept(total, @),
                                 !.latestCertified = Kept(certified, @)]
      OBVIOUS
    <2>3. r = UnsetInitial(i)
      BY <1>2, <1>12, <2>2 DEF MergeRemove, total, certified
    <2>4. Kept(total, j.latestRegistered) \in Nat /\ Kept(certified, j.latestCertified) \in Nat
      BY FieldTypes DEF Kept
    <2>5. /\ i.version = j.version /\ i.initial = j.initial
          /\ i.deletable = total /\ i.deletableCertified = certified
          /\ SamePermanent(j, i) /\ SamePooled(j, i)
          /\ i.latestRegistered = Kept(total, j.latestRegistered)
          /\ i.latestCertified = Kept(certified, j.latestCertified)
      BY <2>2 DEF Infos, SamePermanent, SamePooled
    <2>6. i \in Infos
      BY <2>1, <2>2, <2>4 DEF Infos
    <2>7. CountsMatch(i, u)
      BY <1>3, <1>12, <2>1, <2>5 DEF Agrees, CountsMatch, ObjectKinds, SamePermanent, SamePooled
    <2>8. EndsOfPermanent(i, u)
      BY <1>7, <2>5, SameEndsOfPermanent DEF Agrees, SamePermanent
    <2>9. EndsOfDeletable(i, u)
      <3> SUFFICES ASSUME i.version = "V1"
                   PROVE  /\ \A y \in EntriesOf(u, "deletable") : i.latestRegistered >= u[y].end
                          /\ \A y \in CertifiedOf(u, "deletable") : i.latestCertified >= u[y].end
        BY DEF EndsOfDeletable
      <3>1. /\ \A y \in EntriesOf(t, "deletable") : j.latestRegistered >= t[y].end
            /\ \A y \in CertifiedOf(t, "deletable") : j.latestCertified >= t[y].end
        BY <2>5 DEF Agrees, EndsOfDeletable
      <3> QED BY <1>5, <1>6, <1>10, <2>1, <2>5, <3>1 DEF Kept, ObjectKinds
    <2> QED BY <2>3, <2>5, <2>6, <2>7, <2>8, <2>9 DEF Valid
  <1>13. CASE t[o].kind = "permanent"
    <2> DEFINE m == Decrement(j.permanent)
               c == IF w = 1 THEN Decrement(j.permanentCertified) ELSE j.permanentCertified
    <2>0. /\ j.permanent \in PermanentInfos /\ j.permanentCertified \in PermanentInfos
          /\ j.permanent.count \in Nat /\ j.permanentCertified.count \in Nat
      BY FieldTypes DEF PermanentInfos
    <2>1. /\ j.permanent.count = NumEntries(t, "permanent")
          /\ j.permanentCertified.count = NumCertified(t, "permanent")
          /\ j.permanent.count = NumEntries(u, "permanent") + 1
          /\ j.permanentCertified.count = NumCertified(u, "permanent") + w
          /\ NumEntries(u, "permanent") \in Nat /\ NumCertified(u, "permanent") \in Nat
      BY <1>3, <1>13 DEF Agrees, CountsMatch, ObjectKinds
    <2>2. /\ m \in PermanentInfos /\ m.count = NumEntries(u, "permanent")
          /\ m.count = 0 => m.end = 0
          /\ m.count > 0 => m.end = j.permanent.end
      <3>1. j.permanent.count > 0 /\ j.permanent.count - 1 = NumEntries(u, "permanent")
        BY <2>1
      <3> QED BY <2>0, <3>1, DecrementPermanent
    <2>3. /\ c \in PermanentInfos /\ c.count = NumCertified(u, "permanent")
          /\ c.count = 0 => c.end = 0
          /\ c.count > 0 => c.end = j.permanentCertified.end
      <3>1. CASE w = 1
        <4>1. j.permanentCertified.count > 0
              /\ j.permanentCertified.count - 1 = NumCertified(u, "permanent")
          BY <2>1, <3>1
        <4>2. c = Decrement(j.permanentCertified)
          BY <3>1
        <4> QED BY <2>0, <4>1, <4>2, DecrementPermanent
      <3>2. CASE w = 0
        <4>1. c = j.permanentCertified /\ c.count = NumCertified(u, "permanent")
          BY <2>1, <3>2
        <4> QED BY <2>0, <4>1 DEF Agrees, EndsOfPermanent
      <3> QED BY <1>2, <3>1, <3>2
    <2>4. PICK i : i = [j EXCEPT !.permanent = m, !.permanentCertified = c]
      OBVIOUS
    <2>5. r = UnsetInitial(i)
      <3>1. c = IF op.wasCertified THEN Decrement(j.permanentCertified)
                ELSE j.permanentCertified
        BY <1>2
      <3> HIDE DEF c
      <3>2. MergeRemove(j, op) =
              UnsetInitial([j EXCEPT !.permanent = Decrement(j.permanent),
                                     !.permanentCertified =
                                        IF op.wasCertified THEN Decrement(j.permanentCertified)
                                        ELSE j.permanentCertified])
        BY <1>13 DEF MergeRemove
      <3> QED BY <2>4, <3>1, <3>2
    <2> HIDE DEF m, c
    <2>6. /\ i.version = j.version /\ i.initial = j.initial
          /\ i.permanent = m /\ i.permanentCertified = c
          /\ SameDeletable(j, i) /\ SameLatest(j, i) /\ SamePooled(j, i)
      BY <2>4 DEF Infos, SameDeletable, SameLatest, SamePooled
    <2>7. i \in Infos
      BY <2>2, <2>3, <2>4 DEF Infos
    <2>8. CountsMatch(i, u)
      BY <1>3, <1>13, <2>2, <2>3, <2>6 DEF Agrees, CountsMatch, ObjectKinds, SameDeletable, SamePooled
    <2>9. EndsOfPermanent(i, u)
      <3>1. /\ \A y \in EntriesOf(t, "permanent") : j.permanent.end >= t[y].end
            /\ \A y \in CertifiedOf(t, "permanent") : j.permanentCertified.end >= t[y].end
        BY DEF Agrees, EndsOfPermanent
      <3>2. \A y \in EntriesOf(u, "permanent") : m.end >= u[y].end
        <4> SUFFICES ASSUME NEW y \in EntriesOf(u, "permanent") PROVE m.end >= u[y].end
          OBVIOUS
        <4>1. m.count # 0
          BY <1>10, <2>2 DEF ObjectKinds
        <4>2. m.count > 0
          BY <2>1, <2>2, <4>1
        <4> QED BY <1>5, <2>2, <3>1, <4>2
      <3>3. \A y \in CertifiedOf(u, "permanent") : c.end >= u[y].end
        <4> SUFFICES ASSUME NEW y \in CertifiedOf(u, "permanent") PROVE c.end >= u[y].end
          OBVIOUS
        <4>1. c.count # 0
          BY <1>10, <2>3 DEF ObjectKinds
        <4>2. c.count > 0
          BY <2>1, <2>3, <4>1
        <4> QED BY <1>6, <2>3, <3>1, <4>2
      <3> QED BY <2>2, <2>3, <2>6, <3>2, <3>3 DEF EndsOfPermanent
    <2>10. EndsOfDeletable(i, u)
      BY <1>7, <2>6, SameEndsOfDeletable DEF Agrees, SameLatest
    <2> QED BY <2>5, <2>6, <2>7, <2>8, <2>9, <2>10 DEF Valid
  <1>14. CASE t[o].kind = "pooled"
    <2>1. PICK v : v = ToV2(j)
      OBVIOUS
    <2>2. v \in Infos /\ v.version = "V2" /\ Agrees(v, t) /\ v.initial = j.initial
      BY <2>1, ToV2Agrees
    <2>3. /\ v.pooled = NumEntries(u, "pooled") + 1
          /\ v.pooledCertified = NumCertified(u, "pooled") + w
          /\ NumEntries(u, "pooled") \in Nat /\ NumCertified(u, "pooled") \in Nat
      BY <1>3, <1>14, <2>2 DEF Agrees, CountsMatch, ObjectKinds
    <2>4. /\ v.pooled # 0 /\ v.pooled - 1 = NumEntries(u, "pooled")
          /\ Less(v.pooledCertified, w) = NumCertified(u, "pooled")
      BY <1>2, <2>3 DEF Less
    <2>5. PICK i : i = [v EXCEPT !.pooled = v.pooled - 1,
                                 !.pooledCertified = Less(v.pooledCertified, w)]
      OBVIOUS
    <2>6. r = UnsetInitial(i)
      BY <1>2, <1>14, <2>1, <2>4, <2>5 DEF MergeRemove
    <2>7. /\ i.version = "V2" /\ i.initial = v.initial
          /\ i.pooled = NumEntries(u, "pooled") /\ i.pooledCertified = NumCertified(u, "pooled")
          /\ SameDeletable(v, i) /\ SamePermanent(v, i)
      BY <2>2, <2>4, <2>5 DEF Infos, SameDeletable, SamePermanent
    <2>8. i \in Infos
      BY <2>2, <2>3, <2>4, <2>5 DEF Infos
    <2>9. CountsMatch(i, u)
      BY <1>3, <1>14, <2>2, <2>7 DEF Agrees, CountsMatch, ObjectKinds, SameDeletable, SamePermanent
    <2>10. EndsOfPermanent(i, u)
      BY <1>7, <2>2, <2>7, SameEndsOfPermanent DEF Agrees, SamePermanent
    <2>11. EndsOfDeletable(i, u)
      BY <2>7 DEF EndsOfDeletable
    <2> QED BY <2>2, <2>6, <2>7, <2>8, <2>9, <2>10, <2>11 DEF Valid
  <1> QED
    BY <1>1, <1>12, <1>13, <1>14 DEF ObjectKinds

-----------------------------------------------------------------------------
(* One operand, merged into any aggregate *)

(* The aggregate without any object.                                       *)
LEMMA DefaultAgrees ==
  ASSUME NEW t, Agrees(NoInfo, t)
  PROVE  /\ Default("V1") \in Infos /\ Valid(Default("V1")) /\ Agrees(Default("V1"), t)
         /\ Default("V1").initial = 0 /\ NoInfo \in Infos
  <1>1. /\ Default("V1") \in Infos /\ Valid(Default("V1")) /\ Default("V1").initial = 0
        /\ NoInfo \in Infos
    BY DEF Default, Infos, PermanentInfos, NoPermanent, Valid, NoInfo
  <1>2. /\ SameDeletable(NoInfo, Default("V1")) /\ SamePermanent(NoInfo, Default("V1"))
        /\ SamePooled(NoInfo, Default("V1"))
        /\ NoInfo.deletable = 0 /\ NoInfo.initial = 0 /\ NoInfo.deletableCertified = 0
    BY DEF Default, NoInfo, SameDeletable, SamePermanent, SamePooled
  <1>3. EntriesOf(t, "deletable") = {} /\ CertifiedOf(t, "deletable") = {}
    <2>1. NumEntries(t, "deletable") = 0 /\ NumCertified(t, "deletable") = 0
      BY <1>2 DEF Agrees, CountsMatch
    <2>2. IsFiniteSet(EntriesOf(t, "deletable")) /\ IsFiniteSet(CertifiedOf(t, "deletable"))
      BY ObjectsAssumption, FS_Subset DEF EntriesOf, CertifiedOf
    <2> QED BY <2>1, <2>2, FS_EmptySet DEF NumEntries, NumCertified
  <1>4. /\ CountsMatch(Default("V1"), t) /\ EndsOfPermanent(Default("V1"), t)
        /\ InitialMatches(Default("V1"), t)
    BY <1>1, <1>2 DEF Agrees, CountsMatch, EndsOfPermanent, InitialMatches,
                      SameDeletable, SamePermanent, SamePooled
  <1>5. EndsOfDeletable(Default("V1"), t)
    BY <1>3 DEF EndsOfDeletable
  <1> QED BY <1>1, <1>4, <1>5 DEF Agrees

(* The versions of an aggregate.                                           *)
LEMMA Versions ==
  ASSUME NEW i, NEW t, Matches(i, t)
  PROVE  /\ i.version = "None" <=> i = NoInfo
         /\ i.version = "Invalid" \/ i = NoInfo \/ Valid(i)
         /\ Valid(i) => i.version # "Invalid" /\ i # NoInfo
         /\ i.version # "Invalid" => Agrees(i, t)
         /\ i.version = "Invalid" => i # NoInfo
  BY DEF Matches, Infos, NoInfo, Default, Valid

(* The aggregate of a blob id with an entry is not missing.                *)
LEMMA TrackedIsValid ==
  ASSUME NEW i, NEW t \in Tables, Matches(i, t), NEW o \in Objects, t[o] # NoEntry,
         t[o].kind \in ObjectKinds
  PROVE  i # NoInfo /\ (i.version # "Invalid" => Valid(i))
  <1>1. SUFFICES ASSUME i = NoInfo PROVE FALSE
    BY Versions
  <1>2. Agrees(NoInfo, t)
    BY <1>1, Versions DEF NoInfo, Default
  <1>3. \A k \in ObjectKinds : NumEntries(t, k) = 0
    BY <1>2 DEF Agrees, CountsMatch, NoInfo, Default, NoPermanent, ObjectKinds
  <1>4. IsEntry(t[o], t[o].kind)
    BY DEF IsEntry
  <1> QED BY <1>3, <1>4, EntriesCount

LEMMA RegisterMatches ==
  ASSUME NEW i, NEW t, Matches(i, t), NEW o, t[o] = NoEntry,
         NEW x \in Records, x.kind \in ObjectKinds, x.certified = 0,
         NEW u, Updated(t, u, o, x),
         NEW op, op.type = "Register", op.kind = x.kind, op.end = x.end,
         NEW r, r = Merge(i, op)
  PROVE  /\ Matches(r, u)
         /\ i.version = "Invalid" => r = i
         /\ i.version # "Invalid" => Valid(r) /\ r.initial = i.initial
  <1>1. CASE i.version = "Invalid"
    <2>1. r = i
      BY <1>1, Versions DEF Merge, MergeWith
    <2> QED BY <1>1, <2>1 DEF Matches
  <1>2. CASE i = NoInfo
    <2>1. Agrees(NoInfo, t) /\ i.version # "Invalid" /\ i.initial = 0
      BY <1>2, Versions DEF NoInfo, Default
    <2>2. /\ Default("V1") \in Infos /\ Valid(Default("V1")) /\ Agrees(Default("V1"), t)
          /\ Default("V1").initial = 0
      BY <2>1, DefaultAgrees
    <2>3. r = MergeRegister(Default("V1"), op)
      BY <1>2 DEF Merge, MergeNew
    <2>4. r \in Infos /\ Valid(r) /\ Agrees(r, u) /\ r.initial = 0
      BY <2>2, <2>3, RegisterAgrees
    <2> QED BY <2>1, <2>4 DEF Matches, Valid
  <1>3. CASE Valid(i)
    <2>1. Agrees(i, t) /\ i \in Infos /\ i.version # "Invalid" /\ i # NoInfo
      BY <1>3, Versions DEF Matches
    <2>2. r = MergeRegister(i, op)
      BY <2>1 DEF Merge, MergeWith
    <2>3. r \in Infos /\ Valid(r) /\ Agrees(r, u) /\ r.initial = i.initial
      BY <1>3, <2>1, <2>2, RegisterAgrees
    <2> QED BY <2>1, <2>3 DEF Matches, Valid
  <1> QED BY <1>1, <1>2, <1>3, Versions

LEMMA CertifyMatches ==
  ASSUME NEW i, NEW t, Matches(i, t), NEW o, t[o] # NoEntry, t[o].certified = 0,
         NEW x \in Records, x.kind = t[o].kind, x.kind \in ObjectKinds, x.end = t[o].end,
         x.certified > 0, NEW u, Updated(t, u, o, x),
         NEW op, op.type = "Certify", op.kind = x.kind, op.end = x.end, op.epoch \in Nat \ {0},
         NEW r, r = Merge(i, op)
  PROVE  /\ Matches(r, u)
         /\ i.version = "Invalid" => r = i
         /\ i.version # "Invalid" =>
              /\ Valid(i) /\ Valid(r)
              /\ \E v \in Infos : /\ Valid(v) /\ Agrees(v, t) /\ v.initial = i.initial
                                  /\ r.initial = InitialCertified(v, op)
  <1>1. i # NoInfo /\ (i.version # "Invalid" => Valid(i))
    BY TrackedIsValid DEF Updated
  <1>2. CASE i.version = "Invalid"
    <2>1. r = i
      BY <1>2, Versions DEF Merge, MergeWith
    <2> QED BY <1>2, <2>1 DEF Matches
  <1>3. CASE i.version # "Invalid"
    <2>1. Agrees(i, t) /\ i \in Infos /\ Valid(i)
      BY <1>1, <1>3, Versions DEF Matches
    <2>2. r = MergeCertify(i, op)
      BY <1>1, <1>3 DEF Merge, MergeWith
    <2>3. /\ r \in Infos /\ Valid(r) /\ Agrees(r, u)
          /\ \E v \in Infos : /\ Valid(v) /\ Agrees(v, t) /\ v.initial = i.initial
                              /\ r.initial = InitialCertified(v, op)
      BY <2>1, <2>2, CertifyAgrees
    <2> QED BY <1>3, <2>1, <2>3 DEF Matches, Valid
  <1> QED BY <1>2, <1>3

LEMMA ExtendMatches ==
  ASSUME NEW i, NEW t, Matches(i, t), NEW o, t[o] # NoEntry, t[o].certified > 0,
         NEW x \in Records, x.kind = t[o].kind, x.kind \in {"deletable", "permanent"},
         x.end >= t[o].end, x.certified = t[o].certified, NEW u, Updated(t, u, o, x),
         NEW op, op.type = "Extend", op.kind = x.kind, op.end = x.end,
         NEW r, r = Merge(i, op)
  PROVE  /\ Matches(r, u)
         /\ i.version = "Invalid" => r = i
         /\ i.version # "Invalid" => Valid(i) /\ Valid(r) /\ r.initial = i.initial
  <1>1. i # NoInfo /\ (i.version # "Invalid" => Valid(i))
    BY TrackedIsValid DEF Updated, ObjectKinds
  <1>2. CASE i.version = "Invalid"
    <2>1. r = i
      BY <1>2, Versions DEF Merge, MergeWith
    <2> QED BY <1>2, <2>1 DEF Matches
  <1>3. CASE i.version # "Invalid"
    <2>1. Agrees(i, t) /\ i \in Infos /\ Valid(i)
      BY <1>1, <1>3, Versions DEF Matches
    <2>2. r = MergeExtend(i, op)
      BY <1>1, <1>3 DEF Merge, MergeWith
    <2>3. r \in Infos /\ Valid(r) /\ Agrees(r, u) /\ r.initial = i.initial
      BY <2>1, <2>2, ExtendAgrees
    <2> QED BY <1>3, <2>1, <2>3 DEF Matches, Valid
  <1> QED BY <1>2, <1>3

LEMMA RemoveMatches ==
  ASSUME NEW i, NEW t, Matches(i, t), NEW o, t[o] # NoEntry,
         \A y \in Objects : t[y] # NoEntry => t[y].kind \in ObjectKinds,
         NEW u, Updated(t, u, o, NoEntry),
         NEW op, op.type \in {"Delete", "Expired"}, op.kind = t[o].kind,
         op.wasCertified = (t[o].certified > 0),
         NEW r, r = Merge(i, op)
  PROVE  /\ Matches(r, u)
         /\ i.version = "Invalid" => r = i
         /\ i.version # "Invalid" =>
              Valid(i) /\ Valid(r) /\ r.initial = IF AnyCertified(u) THEN i.initial ELSE 0
  <1>1. i # NoInfo /\ (i.version # "Invalid" => Valid(i))
    BY TrackedIsValid DEF Updated
  <1>2. CASE i.version = "Invalid"
    <2>1. r = i
      BY <1>2, Versions DEF Merge, MergeWith
    <2> QED BY <1>2, <2>1 DEF Matches
  <1>3. CASE i.version # "Invalid"
    <2>1. Agrees(i, t) /\ i \in Infos /\ Valid(i)
      BY <1>1, <1>3, Versions DEF Matches
    <2>2. r = MergeRemove(i, op)
      BY <1>1, <1>3 DEF Merge, MergeWith
    <2>3. /\ r \in Infos /\ Valid(r) /\ Agrees(r, u)
          /\ r.initial = IF AnyCertified(u) THEN i.initial ELSE 0
      BY <2>1, <2>2, RemoveAgrees
    <2> QED BY <1>3, <2>1, <2>3 DEF Matches, Valid
  <1> QED BY <1>2, <1>3

(* The operands that are not about an object.                              *)
LEMMA MarkMatches ==
  ASSUME NEW i, NEW t, Matches(i, t)
  PROVE  /\ Matches(Merge(i, [type |-> "MarkInvalid"]), t)
         /\ Merge(i, [type |-> "MarkInvalid"]).version = "Invalid"
         /\ Merge(i, [type |-> "MarkInvalid"]).initial \in {0, i.initial}
         /\ Matches(Merge(i, [type |-> "MarkMetadataStored"]), t)
         /\ Merge(i, [type |-> "MarkMetadataStored"]).initial = i.initial
         /\ Merge(i, [type |-> "MarkMetadataStored"]).version
              = IF i = NoInfo THEN "V1" ELSE i.version
  <1>1. CASE i.version = "Invalid"
    <2>1. /\ Merge(i, [type |-> "MarkInvalid"]) = i
          /\ Merge(i, [type |-> "MarkMetadataStored"]) = i /\ i # NoInfo
      BY <1>1, Versions DEF Merge, MergeWith
    <2> QED BY <1>1, <2>1
  <1>2. CASE i.version # "Invalid"
    <2>1. Default("Invalid") \in Infos /\ Default("Invalid").version = "Invalid"
          /\ Default("Invalid").initial = 0
      BY DEF Default, Infos, PermanentInfos, NoPermanent
    <2>2. Merge(i, [type |-> "MarkInvalid"]) = Default("Invalid")
      BY <1>2 DEF Merge, MergeNew, MergeWith
    <2>3. PICK v : v = IF i = NoInfo THEN Default("V1") ELSE i
      OBVIOUS
    <2>4. v \in Infos /\ Valid(v) /\ Agrees(v, t) /\ v.initial = i.initial
      <3>1. CASE i = NoInfo
        <4>1. Agrees(NoInfo, t) /\ i.initial = 0
          BY <1>2, <3>1, Versions DEF NoInfo, Default
        <4> QED BY <2>3, <3>1, <4>1, DefaultAgrees
      <3>2. CASE i # NoInfo
        BY <1>2, <2>3, <3>2, Versions DEF Matches
      <3> QED BY <3>1, <3>2
    <2>5. v.version = IF i = NoInfo THEN "V1" ELSE i.version
      BY <2>3 DEF Default
    <2>6. Merge(i, [type |-> "MarkMetadataStored"]) = [v EXCEPT !.metadata = TRUE]
      BY <1>2, <2>3 DEF Merge, MergeNew, MergeWith
    <2>7. PICK r : r = [v EXCEPT !.metadata = TRUE]
      OBVIOUS
    <2>8. /\ r \in Infos /\ r.version = v.version /\ r.initial = v.initial
          /\ SameDeletable(v, r) /\ SameLatest(v, r) /\ SamePermanent(v, r) /\ SamePooled(v, r)
      BY <2>4, <2>7 DEF Infos, SameDeletable, SameLatest, SamePermanent, SamePooled
    <2>9. Agrees(r, t)
      BY <2>4, <2>8 DEF Agrees, CountsMatch, EndsOfPermanent, EndsOfDeletable, InitialMatches,
                        SameDeletable, SameLatest, SamePermanent, SamePooled
    <2>10. Matches(r, t)
      BY <2>4, <2>8, <2>9 DEF Matches, Valid
    <2>11. Matches(Default("Invalid"), t)
      BY <2>1 DEF Matches
    <2> QED BY <2>1, <2>2, <2>4, <2>5, <2>6, <2>7, <2>8, <2>10, <2>11
  <1> QED BY <1>1, <1>2

-----------------------------------------------------------------------------
(* What an event about an object does *)

\* The node skips the event: the object ends before the node started.
SkippedEvent(o) ==
  /\ UNCHANGED <<info, table, poolTable, txn>>
  /\ table[o] = NoEntry /\ epochAtStart > 0
  /\ objects'[o].kind # "pooled" /\ objects'[o].end <= epochAtStart

\* The node handles the event: the entry becomes the object, as long as there is one.
Entry(obj) == IF obj.status = "live" THEN obj ELSE NoEntry

HandledEvent(o) ==
  /\ Updated(table, table', o, Entry(objects'[o]))
  /\ Matches(info', table')
  /\ txn' = [txn EXCEPT !.does = "nothing"]
  /\ UNCHANGED poolTable
  /\ epoch >= FirstCompleteEpoch /\ (epochAtStart > 0 => objects'[o].end > epochAtStart)

ObjectEvent(o) ==
  /\ gc = "idle" /\ handled' \in Nat
  /\ UNCHANGED <<epoch, pools, replay, gc, task, epochAtStart, metadata>>
  /\ replay = FALSE
  /\ Updated(objects, objects', o, objects'[o])
  /\ IsObject(objects'[o]) /\ EndOf(objects'[o], pools) > epoch
  /\ deletions' \in {deletions, epoch}
  /\ SkippedEvent(o) \/ HandledEvent(o)

(* Reading an event that is new to the node.                               *)
LEMMA ReadEffect ==
  ASSUME TypeInv, NEW e, Read(e)
  PROVE  /\ gc = "idle" /\ replay = FALSE /\ handled' \in Nat
         /\ UNCHANGED <<epoch, replay, gc, task, metadata>>
         /\ IsIgnored(e) => UNCHANGED <<info, table, poolTable, txn>>
         /\ ~ IsIgnored(e) /\ IsPoolEvent(e) => UpdateStoragePoolInfo(e)
         /\ ~ IsIgnored(e) /\ ~ IsPoolEvent(e) => UpdateBlobInfo(e)
  <1>1. handled \in Nat /\ ~ HasEventBeenHandled(handled + 1)
    BY DEF TypeInv, HasEventBeenHandled
  <1>2. gc = "idle" /\ ~ replay /\ HandleEvent(handled + 1, e)
        /\ UNCHANGED <<epoch, replay, gc, task, upload, metadata, faults>>
    BY DEF Read
  <1>3. CASE IsIgnored(e)
    BY <1>1, <1>2, <1>3 DEF HandleEvent, tables, TypeInv
  <1>4. CASE ~ IsIgnored(e)
    BY <1>1, <1>2, <1>4 DEF HandleEvent, TypeInv
  <1> QED BY <1>3, <1>4

(* The epochs of a node that starts without all of the history.            *)
LEMMA StartEpochs ==
  ASSUME TypeInv
  PROVE  /\ epoch \in Nat \ {0} /\ epochAtStart \in Nat /\ MaxAhead \in Nat \ {0}
         /\ FirstCompleteEpoch \in Nat /\ FirstCompleteEpoch <= epochAtStart
         /\ epochAtStart = 0 => FirstCompleteEpoch = 0
         /\ \A end \in Ends : /\ end \in Nat /\ end > epoch
                              /\ epoch < FirstCompleteEpoch => end <= epochAtStart
  <1>1. epoch \in Nat \ {0} /\ MaxAhead \in Nat \ {0}
    BY EpochAssumption DEF TypeInv
  <1>2. epochAtStart = 0 \/ epochAtStart \in MaxAhead .. MaxEpoch
    BY EpochAssumption DEF TypeInv
  <1>3. MaxEpoch \in Nat
    BY EpochAssumption
  <1> QED BY <1>1, <1>2, <1>3 DEF FirstCompleteEpoch, Ends

(* The entries are objects on chain.                                       *)
LEMMA EntriesAreObjects ==
  ASSUME TypeInv, ObjectsInv, TrackedInv, NEW o \in Objects, table[o] # NoEntry
  PROVE  table[o] = objects[o] /\ IsObject(objects[o]) /\ table[o].kind \in ObjectKinds
  BY DEF TypeInv, ObjectsInv, TrackedInv, IsObject, NoEntry, NoObject

(* A live object is one that was registered.                               *)
LEMMA LiveAreObjects ==
  ASSUME ObjectsInv, NEW o \in LiveObjects
  PROVE  /\ o \in Objects /\ IsObject(objects[o]) /\ objects[o].status = "live"
         /\ EndOf(objects[o], pools) > epoch
  BY DEF ObjectsInv, LiveObjects, NoObject

\* What a step has to tell about the initial certified epoch.
InitialStep ==
  /\ info'.initial <= epoch'
  /\ (LiveCertified' # {} /\ info'.version # "Invalid" /\ epochAtStart = 0) =>
       /\ info.version # "Invalid"
       /\ LiveCertified # {} => info'.initial = info.initial
       /\ LiveCertified = {} => info'.initial = epoch'

\* The aggregate keeps its initial certified epoch.
InitialKept ==
  /\ info.version = "Invalid" => info'.version = "Invalid"
  /\ info'.version # "Invalid" => info'.initial = info.initial
  /\ info'.initial \in {0, info.initial}

(* An event about an object that is handled, and one that is skipped.      *)
LEMMA ObjectEventSplit ==
  ASSUME TablesInv, UNCHANGED <<epochAtStart, pools>>, NEW o \in Objects, NEW obj,
         objects' = [objects EXCEPT ![o] = obj], IsObject(obj), EndOf(obj, pools) > epoch,
         NEW e, Read(e), ~ IsPoolEvent(e), e.type # "MarkInvalid", e.kind = obj.kind,
         e.end = obj.end, deletions' \in {deletions, epoch},
         IsIgnored(e) => table[o] = NoEntry /\ obj.kind # "pooled" /\ obj.end <= epochAtStart,
         ~ IsIgnored(e) /\ UpdateBlobInfo(e) =>
           Updated(table, table', o, Entry(obj)) /\ Matches(info', table')
  PROVE  /\ ObjectEvent(o) /\ objects'[o] = obj
         /\ \/ IsIgnored(e) /\ SkippedEvent(o)
            \/ ~ IsIgnored(e) /\ HandledEvent(o) /\ UpdateBlobInfo(e)
  <1>1. TypeInv
    BY DEF TablesInv
  <1>2. /\ gc = "idle" /\ replay = FALSE /\ handled' \in Nat
        /\ UNCHANGED <<epoch, replay, gc, task, metadata>>
        /\ IsIgnored(e) => UNCHANGED <<info, table, poolTable, txn>>
        /\ ~ IsIgnored(e) => UpdateBlobInfo(e)
    BY <1>1, ReadEffect
  <1>3. objects'[o] = obj /\ Updated(objects, objects', o, objects'[o])
    <2>1. objects \in Tables /\ obj \in Records
      BY <1>1 DEF TypeInv, IsObject
    <2>2. Updated(objects, [objects EXCEPT ![o] = obj], o, obj)
      BY <2>1, TableUpdate
    <2>3. Updated(objects, objects', o, obj)
      BY <2>2
    <2>4. objects'[o] = obj
      BY <2>3 DEF Updated
    <2> QED BY <2>3, <2>4
  <1>4. ASSUME IsIgnored(e) PROVE SkippedEvent(o)
    <2>1. epochAtStart > 0
      BY <1>4 DEF IsIgnored
    <2> QED BY <1>2, <1>3, <1>4, <2>1 DEF SkippedEvent
  <1>5. ASSUME ~ IsIgnored(e) PROVE HandledEvent(o) /\ UpdateBlobInfo(e)
    <2>1. UpdateBlobInfo(e)
      BY <1>2, <1>5
    <2>2. txn' = [txn EXCEPT !.does = "nothing"] /\ UNCHANGED poolTable
      BY <2>1 DEF UpdateBlobInfo, TouchInfo
    <2>3. epochAtStart > 0 => epoch >= FirstCompleteEpoch /\ (obj.kind # "pooled" => obj.end > epochAtStart)
      <3>1. obj.end \in Nat
        BY DEF IsObject, Records
      <3> QED BY <1>1, <1>5, <3>1, StartEpochs DEF IsIgnored
    <2>4. obj.kind = "pooled" => epochAtStart = 0
      BY DEF IsObject
    <2>5. epoch >= FirstCompleteEpoch /\ (epochAtStart > 0 => obj.end > epochAtStart)
      BY <1>1, <2>3, <2>4, StartEpochs
    <2> QED BY <1>3, <1>5, <2>1, <2>2, <2>5 DEF HandledEvent
  <1>6. ObjectEvent(o)
    BY <1>2, <1>3, <1>4, <1>5 DEF ObjectEvent
  <1> QED BY <1>3, <1>4, <1>5, <1>6

(* A registration, of a blob with storage of its own or of a pooled one.   *)
LEMMA RegisterEffect ==
  ASSUME TablesInv, UNCHANGED <<epochAtStart, pools, deletions>>, NEW o \in Objects, NEW obj,
         IsObject(obj), obj.status = "live", obj.certified = 0, EndOf(obj, pools) > epoch,
         obj.kind # "pooled" => obj.end \in Ends,
         objects[o].status = "new", objects' = [objects EXCEPT ![o] = obj],
         Read(BlobEvent("Register", o, obj))
  PROVE  ObjectEvent(o) /\ objects'[o] = obj /\ InitialKept
  <1>1. TypeInv /\ ObjectsInv /\ TrackedInv /\ Matches(info, table)
    BY DEF TablesInv
  <1>2. PICK e : e = BlobEvent("Register", o, obj)
    OBVIOUS
  <1>3. /\ e.type = "Register" /\ e.object = o /\ e.kind = obj.kind /\ e.pool = obj.pool
        /\ e.end = obj.end /\ ~ IsPoolEvent(e)
    BY <1>2 DEF BlobEvent, IsPoolEvent
  <1>4. table[o] = NoEntry
    BY <1>1 DEF TrackedInv
  <1>5. IsIgnored(e) => obj.kind # "pooled" /\ obj.end <= epochAtStart
    <2>1. obj.kind = "pooled" => epochAtStart = 0
      BY DEF IsObject
    <2> QED BY <1>1, <1>3, <2>1, StartEpochs DEF IsIgnored
  <1>6. ASSUME UpdateBlobInfo(e)
        PROVE  /\ Updated(table, table', o, Entry(obj)) /\ Matches(info', table')
               /\ InitialKept
    <2>1. obj \in Records /\ obj.kind \in ObjectKinds /\ Entry(obj) = obj
      BY DEF IsObject, Entry
    <2>2. MergePerObject(table[o], e) = obj
      BY <1>3, <2>1 DEF MergePerObject, Records
    <2>3. Updated(table, table', o, obj)
      <3>1. table \in Tables /\ table' = [table EXCEPT ![o] = obj]
        BY <1>1, <1>3, <1>6, <2>2 DEF UpdateBlobInfo, TypeInv
      <3> QED BY <2>1, <3>1, TableUpdate
    <2>4. info' = Merge(info, e)
      BY <1>3, <1>6 DEF UpdateBlobInfo, MergeOperands, IsUntrackedExtension
    <2>5. /\ Matches(info', table')
          /\ info.version = "Invalid" => info' = info
          /\ info.version # "Invalid" => Valid(info') /\ info'.initial = info.initial
      BY <1>1, <1>3, <1>4, <2>1, <2>3, <2>4, RegisterMatches
    <2> QED BY <2>1, <2>3, <2>5 DEF InitialKept
  <1>7. Read(e)
    BY <1>2
  <1>8. /\ ObjectEvent(o) /\ objects'[o] = obj
        /\ SkippedEvent(o) \/ UpdateBlobInfo(e)
    BY <1>3, <1>4, <1>5, <1>6, <1>7, ObjectEventSplit
  <1>9. SkippedEvent(o) => InitialKept
    BY DEF SkippedEvent, InitialKept
  <1> QED BY <1>6, <1>8, <1>9

(* A certification of an object that is live.                              *)
LEMMA CertifyEffect ==
  ASSUME TablesInv, UNCHANGED epochAtStart, NEW o \in Objects, Certify(o)
  PROVE  /\ ObjectEvent(o) /\ o \in LiveObjects
         /\ objects'[o] = [objects[o] EXCEPT !.certified = epoch]
         /\ \/ UNCHANGED info /\ epochAtStart > 0
            \/ info.version = "Invalid" /\ UNCHANGED info
            \/ /\ Valid(info) /\ Valid(info')
               /\ \E v \in Infos : \E op :
                    /\ Valid(v) /\ Agrees(v, table) /\ v.initial = info.initial
                    /\ op.epoch = epoch /\ info'.initial = InitialCertified(v, op)
  <1>1. TypeInv /\ ObjectsInv /\ TrackedInv /\ Matches(info, table) /\ UntrackedInv
    BY DEF TablesInv
  <1>2. /\ o \in LiveObjects /\ o \notin LiveCertified /\ UNCHANGED <<pools, deletions>>
        /\ objects' = [objects EXCEPT ![o].certified = epoch]
        /\ Read(BlobEvent("Certify", o, objects[o]))
    BY DEF Certify
  <1>3. /\ IsObject(objects[o]) /\ objects[o].status = "live"
        /\ EndOf(objects[o], pools) > epoch /\ objects[o] \in Records
    BY <1>1, <1>2, LiveAreObjects DEF IsObject
  <1>4. objects[o].certified = 0
    BY <1>2, <1>3 DEF LiveCertified, Records
  <1>5. PICK obj : obj = [objects[o] EXCEPT !.certified = epoch]
    OBVIOUS
  <1>6. /\ obj \in Records /\ obj.status = "live" /\ obj.kind = objects[o].kind
        /\ obj.pool = objects[o].pool /\ obj.end = objects[o].end /\ obj.certified = epoch
        /\ epoch \in Nat \ {0}
    BY <1>1, <1>3, <1>5 DEF Records, TypeInv
  <1>7. objects' = [objects EXCEPT ![o] = obj]
    BY <1>2, <1>5
  <1>8. IsObject(obj) /\ EndOf(obj, pools) > epoch /\ Entry(obj) = obj
    BY <1>3, <1>6 DEF IsObject, EndOf, Entry
  <1>9. PICK e : e = BlobEvent("Certify", o, objects[o])
    OBVIOUS
  <1>10. /\ e.type = "Certify" /\ e.object = o /\ e.kind = obj.kind /\ e.end = obj.end
         /\ e.epoch = epoch /\ ~ IsPoolEvent(e)
    BY <1>6, <1>9 DEF BlobEvent, IsPoolEvent
  <1>11. obj.end \in Nat /\ (obj.kind = "pooled" => epochAtStart = 0)
    BY <1>6, <1>8 DEF Records, IsObject
  <1>12. ASSUME IsIgnored(e)
         PROVE  table[o] = NoEntry /\ obj.kind # "pooled" /\ obj.end <= epochAtStart
    <2>1. epochAtStart > 0 /\ (epoch < FirstCompleteEpoch \/ obj.end <= epochAtStart)
      BY <1>10, <1>12 DEF IsIgnored
    <2>2. table[o] = NoEntry
      BY <1>1, <1>6, <1>11, <2>1, StartEpochs DEF TrackedInv
    <2> QED BY <1>1, <1>2, <1>6, <2>2 DEF UntrackedInv
  <1>13. ASSUME ~ IsIgnored(e), UpdateBlobInfo(e)
         PROVE  /\ Updated(table, table', o, Entry(obj)) /\ Matches(info', table')
                /\ info.version = "Invalid" => info' = info
                /\ info.version # "Invalid" =>
                     /\ Valid(info) /\ Valid(info')
                     /\ \E v \in Infos : /\ Valid(v) /\ Agrees(v, table)
                                         /\ v.initial = info.initial
                                         /\ info'.initial = InitialCertified(v, e)
    <2>1. epochAtStart > 0 /\ obj.kind # "pooled" => obj.end > epochAtStart
      BY <1>1, <1>10, <1>11, <1>13, StartEpochs DEF IsIgnored
    <2>2. table[o] # NoEntry
      BY <1>1, <1>2, <1>6, <1>11, <2>1, StartEpochs DEF UntrackedInv
    <2>3. table[o] = objects[o]
      BY <1>1, <2>2 DEF TrackedInv
    <2>4. MergePerObject(table[o], e) = obj
      BY <1>5, <1>10, <2>3 DEF MergePerObject, IsUntrackedExtension
    <2>5. Updated(table, table', o, obj)
      <3>1. table \in Tables /\ table' = [table EXCEPT ![o] = obj]
        BY <1>1, <1>10, <1>13, <2>4 DEF UpdateBlobInfo, TypeInv
      <3> QED BY <1>6, <3>1, TableUpdate
    <2>6. info' = Merge(info, e)
      BY <1>10, <1>13 DEF UpdateBlobInfo, MergeOperands, IsUntrackedExtension
    <2>7. /\ table[o].certified = 0 /\ obj.kind = table[o].kind /\ obj.kind \in ObjectKinds
          /\ obj.end = table[o].end /\ obj.certified > 0
      BY <1>3, <1>4, <1>6, <2>3 DEF IsObject
    <2>8. /\ Matches(info', table')
          /\ info.version = "Invalid" => info' = info
          /\ info.version # "Invalid" =>
               /\ Valid(info) /\ Valid(info')
               /\ \E v \in Infos : /\ Valid(v) /\ Agrees(v, table) /\ v.initial = info.initial
                                   /\ info'.initial = InitialCertified(v, e)
      BY <1>1, <1>6, <1>10, <2>2, <2>5, <2>6, <2>7, CertifyMatches
    <2> QED BY <1>8, <2>5, <2>8
  <1>14. /\ ObjectEvent(o) /\ objects'[o] = obj
         /\ \/ IsIgnored(e) /\ SkippedEvent(o)
            \/ ~ IsIgnored(e) /\ UpdateBlobInfo(e)
    BY <1>2, <1>7, <1>8, <1>9, <1>10, <1>12, <1>13, ObjectEventSplit
  <1>15. SkippedEvent(o) => UNCHANGED info /\ epochAtStart > 0
    BY DEF SkippedEvent
  <1> QED BY <1>2, <1>5, <1>10, <1>13, <1>14, <1>15

(* A deletion.                                                             *)
LEMMA DeleteEffect ==
  ASSUME TablesInv, UNCHANGED epochAtStart, NEW o \in Objects, Delete(o)
  PROVE  /\ ObjectEvent(o) /\ o \in LiveObjects
         /\ objects'[o] = [objects[o] EXCEPT !.status = "gone"]
         /\ \/ UNCHANGED info
            \/ /\ Valid(info) /\ Valid(info')
               /\ info'.initial = IF AnyCertified(table') THEN info.initial ELSE 0
  <1>1. TypeInv /\ ObjectsInv /\ TrackedInv /\ Matches(info, table) /\ UntrackedInv
    BY DEF TablesInv
  <1>2. /\ o \in LiveObjects /\ UNCHANGED pools /\ deletions' \in {deletions, epoch}
        /\ objects' = [objects EXCEPT ![o].status = "gone"]
        /\ Read(BlobEvent("Delete", o, objects[o]))
    BY DEF Delete
  <1>3. /\ IsObject(objects[o]) /\ objects[o].status = "live"
        /\ EndOf(objects[o], pools) > epoch /\ objects[o] \in Records
    BY <1>1, <1>2, LiveAreObjects DEF IsObject
  <1>4. PICK obj : obj = [objects[o] EXCEPT !.status = "gone"]
    OBVIOUS
  <1>5. /\ obj \in Records /\ obj.status = "gone" /\ obj.kind = objects[o].kind
        /\ obj.pool = objects[o].pool /\ obj.end = objects[o].end
        /\ obj.certified = objects[o].certified /\ epoch \in Nat \ {0}
    BY <1>1, <1>3, <1>4 DEF Records, TypeInv
  <1>6. objects' = [objects EXCEPT ![o] = obj]
    BY <1>2, <1>4
  <1>7. IsObject(obj) /\ EndOf(obj, pools) > epoch /\ Entry(obj) = NoEntry
    BY <1>3, <1>5 DEF IsObject, EndOf, Entry
  <1>8. PICK e : e = BlobEvent("Delete", o, objects[o])
    OBVIOUS
  <1>9. /\ e.type = "Delete" /\ e.object = o /\ e.kind = obj.kind /\ e.end = obj.end
        /\ e.wasCertified = (objects[o].certified > 0) /\ ~ IsPoolEvent(e)
    BY <1>5, <1>8 DEF BlobEvent, IsPoolEvent
  <1>10. obj.end \in Nat /\ (obj.kind = "pooled" => epochAtStart = 0)
    BY <1>5, <1>7 DEF Records, IsObject
  <1>11. ASSUME IsIgnored(e)
         PROVE  table[o] = NoEntry /\ obj.kind # "pooled" /\ obj.end <= epochAtStart
    <2>1. epochAtStart > 0 /\ (epoch < FirstCompleteEpoch \/ obj.end <= epochAtStart)
      BY <1>9, <1>11 DEF IsIgnored
    <2>2. table[o] = NoEntry
      BY <1>1, <1>5, <1>10, <2>1, StartEpochs DEF TrackedInv
    <2> QED BY <1>1, <1>2, <1>5, <2>2 DEF UntrackedInv
  <1>12. ASSUME ~ IsIgnored(e), UpdateBlobInfo(e)
         PROVE  /\ Updated(table, table', o, Entry(obj)) /\ Matches(info', table')
                /\ info.version = "Invalid" => info' = info
                /\ info.version # "Invalid" =>
                     /\ Valid(info) /\ Valid(info')
                     /\ info'.initial = IF AnyCertified(table') THEN info.initial ELSE 0
    <2>1. epochAtStart > 0 /\ obj.kind # "pooled" => obj.end > epochAtStart
      BY <1>1, <1>9, <1>10, <1>12, StartEpochs DEF IsIgnored
    <2>2. table[o] # NoEntry
      BY <1>1, <1>2, <1>5, <1>10, <2>1, StartEpochs DEF UntrackedInv
    <2>3. table[o] = objects[o]
      BY <1>1, <2>2 DEF TrackedInv
    <2>4. MergePerObject(table[o], e) = NoEntry
      BY <1>9 DEF MergePerObject, IsUntrackedExtension
    <2>5. Updated(table, table', o, NoEntry)
      <3>1. table \in Tables /\ table' = [table EXCEPT ![o] = NoEntry]
        BY <1>1, <1>9, <1>12, <2>4 DEF UpdateBlobInfo, TypeInv
      <3>2. NoEntry \in Records
        BY DEF NoEntry, NoObject, Records
      <3> QED BY <3>1, <3>2, TableUpdate
    <2>6. info' = Merge(info, e)
      BY <1>9, <1>12 DEF UpdateBlobInfo, MergeOperands, IsUntrackedExtension
    <2>7. /\ \A y \in Objects : table[y] # NoEntry => table[y].kind \in ObjectKinds
          /\ e.kind = table[o].kind /\ e.wasCertified = (table[o].certified > 0)
      BY <1>1, <1>5, <1>9, <2>3, EntriesAreObjects
    <2>8. /\ Matches(info', table')
          /\ info.version = "Invalid" => info' = info
          /\ info.version # "Invalid" =>
               /\ Valid(info) /\ Valid(info')
               /\ info'.initial = IF AnyCertified(table') THEN info.initial ELSE 0
      BY <1>1, <1>9, <2>2, <2>5, <2>6, <2>7, RemoveMatches
    <2> QED BY <1>7, <2>5, <2>8
  <1>13. /\ ObjectEvent(o) /\ objects'[o] = obj
         /\ \/ IsIgnored(e) /\ SkippedEvent(o)
            \/ ~ IsIgnored(e) /\ UpdateBlobInfo(e)
    BY <1>2, <1>6, <1>7, <1>8, <1>9, <1>11, <1>12, ObjectEventSplit
  <1>14. SkippedEvent(o) => UNCHANGED info
    BY DEF SkippedEvent
  <1> QED BY <1>2, <1>4, <1>12, <1>13, <1>14

(* An extension, which may be the first event of an object that the node has to handle. *)
LEMMA ExtendEffect ==
  ASSUME TablesInv, UNCHANGED epochAtStart, NEW o \in Objects, NEW end \in Ends, Extend(o, end),
         info.initial <= epoch
  PROVE  /\ ObjectEvent(o) /\ o \in LiveCertified
         /\ objects'[o] = [objects[o] EXCEPT !.end = end]
         /\ info'.initial <= epoch
         /\ epochAtStart = 0 => InitialKept
  <1>1. TypeInv /\ ObjectsInv /\ TrackedInv /\ Matches(info, table) /\ UntrackedInv
    BY DEF TablesInv
  <1>2. /\ o \in LiveObjects /\ o \in LiveCertified /\ objects[o].certified > 0
        /\ objects[o].kind # "pooled" /\ end > objects[o].end /\ UNCHANGED <<pools, deletions>>
        /\ objects' = [objects EXCEPT ![o].end = end]
        /\ Read(BlobEvent("Extend", o, objects'[o]))
    BY DEF Extend, LiveCertified
  <1>3. /\ IsObject(objects[o]) /\ objects[o].status = "live"
        /\ EndOf(objects[o], pools) > epoch /\ objects[o] \in Records
    BY <1>1, <1>2, LiveAreObjects DEF IsObject
  <1>4. PICK obj : obj = [objects[o] EXCEPT !.end = end]
    OBVIOUS
  <1>5. /\ epoch \in Nat \ {0} /\ epochAtStart \in Nat /\ end \in Nat /\ end > epoch
        /\ FirstCompleteEpoch \in Nat
        /\ epoch < FirstCompleteEpoch => end <= epochAtStart
    BY <1>1, StartEpochs
  <1>6. /\ obj \in Records /\ obj.status = "live" /\ obj.kind = objects[o].kind
        /\ obj.pool = objects[o].pool /\ obj.end = end
        /\ obj.certified = objects[o].certified
    BY <1>3, <1>4, <1>5 DEF Records
  <1>7. /\ objects' = [objects EXCEPT ![o] = obj] /\ objects'[o] = obj
        /\ objects[o].end \in Nat /\ obj.certified \in Nat
    BY <1>1, <1>2, <1>3, <1>4, <1>6 DEF TypeInv, Tables, Records
  <1>8. IsObject(obj) /\ EndOf(obj, pools) > epoch /\ Entry(obj) = obj /\ obj.certified <= epoch
    BY <1>2, <1>3, <1>5, <1>6 DEF IsObject, EndOf, Entry
  <1>9. PICK e : e = BlobEvent("Extend", o, obj)
    OBVIOUS
  <1>10. /\ e.type = "Extend" /\ e.object = o /\ e.kind = obj.kind /\ e.end = obj.end
         /\ e.pool = obj.pool /\ e.epoch = obj.certified /\ ~ IsPoolEvent(e)
    BY <1>9 DEF BlobEvent, IsPoolEvent
  <1>11. obj.kind \in {"deletable", "permanent"}
    BY <1>2, <1>3, <1>6 DEF IsObject, ObjectKinds
  <1>12. ASSUME IsIgnored(e)
         PROVE  table[o] = NoEntry /\ obj.kind # "pooled" /\ obj.end <= epochAtStart
    <2>1. epochAtStart > 0 /\ (epoch < FirstCompleteEpoch \/ obj.end <= epochAtStart)
      BY <1>10, <1>12 DEF IsIgnored
    <2>2. obj.end <= epochAtStart
      BY <1>5, <1>6, <2>1
    <2>3. objects[o].end <= epochAtStart
      BY <1>2, <1>5, <1>6, <1>7, <2>2
    <2>4. table[o] = NoEntry
      BY <1>1, <1>5, <1>7, <2>1, <2>3 DEF TrackedInv
    <2> QED BY <1>11, <2>2, <2>4
  <1>13. ASSUME ~ IsIgnored(e), UpdateBlobInfo(e), ~ IsUntrackedExtension(e)
         PROVE  /\ Updated(table, table', o, Entry(obj)) /\ Matches(info', table')
                /\ InitialKept
    <2>1. epochAtStart > 0 => obj.end > epochAtStart
      BY <1>5, <1>6, <1>10, <1>11, <1>13 DEF IsIgnored
    <2>2. table[o] # NoEntry
      <3>1. epochAtStart > 0 => table[o] # NoEntry
        BY <1>10, <1>13 DEF IsUntrackedExtension
      <3>2. epochAtStart = 0 => table[o] # NoEntry
        BY <1>1, <1>2 DEF UntrackedInv
      <3> QED BY <1>5, <3>1, <3>2
    <2>3. table[o] = objects[o]
      BY <1>1, <2>2 DEF TrackedInv
    <2>4. MergePerObject(table[o], e) = obj
      BY <1>4, <1>6, <1>10, <1>13, <2>3 DEF MergePerObject
    <2>5. Updated(table, table', o, obj)
      <3>1. table \in Tables /\ table' = [table EXCEPT ![o] = obj]
        BY <1>1, <1>10, <1>13, <2>4 DEF UpdateBlobInfo, TypeInv
      <3> QED BY <1>6, <3>1, TableUpdate
    <2>6. info' = Merge(info, e)
      BY <1>10, <1>13 DEF UpdateBlobInfo, MergeOperands
    <2>7. /\ table[o].certified > 0 /\ obj.kind = table[o].kind
          /\ obj.end >= table[o].end /\ obj.certified = table[o].certified
      BY <1>2, <1>5, <1>6, <1>7, <2>3
    <2>8. /\ Matches(info', table')
          /\ info.version = "Invalid" => info' = info
          /\ info.version # "Invalid" =>
               /\ Valid(info) /\ Valid(info') /\ info'.initial = info.initial
      BY <1>1, <1>6, <1>10, <1>11, <2>2, <2>5, <2>6, <2>7, ExtendMatches
    <2> QED BY <1>8, <2>5, <2>8 DEF InitialKept, Valid
  <1>14. ASSUME ~ IsIgnored(e), UpdateBlobInfo(e), IsUntrackedExtension(e)
         PROVE  /\ Updated(table, table', o, Entry(obj)) /\ Matches(info', table')
                /\ info'.initial <= epoch /\ epochAtStart > 0
    <2>1. epochAtStart > 0 /\ table[o] = NoEntry
      BY <1>10, <1>14 DEF IsUntrackedExtension
    <2>2. MergePerObject(table[o], e) = obj
      BY <1>6, <1>10, <1>14 DEF MergePerObject, Records
    <2>3. table' = [table EXCEPT ![o] = obj] /\ table \in Tables
      BY <1>1, <1>10, <1>14, <2>2 DEF UpdateBlobInfo, TypeInv
    <2>4. PICK e1 : e1 = [e EXCEPT !.type = "Register"]
      OBVIOUS
    <2>5. PICK e2 : e2 = [e EXCEPT !.type = "Certify"]
      OBVIOUS
    <2>6. /\ e1.type = "Register" /\ e1.kind = obj.kind /\ e1.end = obj.end
          /\ e2.type = "Certify" /\ e2.kind = obj.kind /\ e2.end = obj.end
          /\ e2.epoch = obj.certified
      BY <1>9, <2>4, <2>5 DEF BlobEvent
    <2>7. info' = Merge(Merge(info, e1), e2)
      BY <1>14, <2>4, <2>5 DEF UpdateBlobInfo, MergeOperands
    <2>8. PICK x1 : x1 = [obj EXCEPT !.certified = 0]
      OBVIOUS
    <2>9. /\ x1 \in Records /\ x1.kind = obj.kind /\ x1.end = obj.end /\ x1.certified = 0
          /\ x1 # NoEntry /\ x1.kind \in ObjectKinds
      BY <1>6, <1>11, <2>8 DEF Records, NoEntry, NoObject, ObjectKinds
    <2>10. PICK t1 : t1 = [table EXCEPT ![o] = x1]
      OBVIOUS
    <2>11. Updated(table, t1, o, x1)
      BY <2>3, <2>9, <2>10, TableUpdate
    <2>12. t1 \in Tables /\ t1[o] = x1
      BY <2>11 DEF Updated
    <2>13. Updated(t1, table', o, obj)
      BY <1>6, <2>3, <2>10, <2>12 DEF Updated, Tables
    <2>14. Updated(table, table', o, obj)
      BY <1>6, <2>3, TableUpdate
    <2>15. PICK i1 : i1 = Merge(info, e1)
      OBVIOUS
    <2>16. /\ Matches(i1, t1)
           /\ info.version = "Invalid" => i1 = info
           /\ info.version # "Invalid" => Valid(i1) /\ i1.initial = info.initial
      BY <1>1, <2>1, <2>6, <2>9, <2>11, <2>15, RegisterMatches
    <2>17. obj.certified > 0 /\ e2.epoch \in Nat \ {0}
      BY <1>2, <1>6, <1>7, <2>6
    <2>18. /\ Matches(info', table')
           /\ i1.version = "Invalid" => info' = i1
           /\ i1.version # "Invalid" =>
                \E v \in Infos : v.initial = i1.initial /\ info'.initial = InitialCertified(v, e2)
      BY <1>6, <2>6, <2>7, <2>9, <2>12, <2>13, <2>15, <2>16, <2>17, CertifyMatches
    <2>19. info'.initial <= epoch
      <3>1. CASE info.version = "Invalid"
        BY <2>16, <2>18, <3>1
      <3>2. CASE info.version # "Invalid"
        <4>1. i1.version # "Invalid" /\ i1.initial = info.initial
          BY <2>16, <3>2 DEF Valid
        <4>2. PICK v \in Infos : v.initial = i1.initial /\ info'.initial = InitialCertified(v, e2)
          BY <2>18, <4>1
        <4>3. v.initial <= epoch /\ e2.epoch <= epoch
          BY <1>8, <2>6, <4>1, <4>2
        <4> QED BY <4>2, <4>3 DEF InitialCertified
      <3> QED BY <3>1, <3>2
    <2> QED BY <1>8, <2>1, <2>14, <2>18, <2>19
  <1>15. Read(e)
    BY <1>2, <1>7, <1>9
  <1>16. deletions' \in {deletions, epoch} /\ UNCHANGED <<epochAtStart, pools>>
    BY <1>2
  <1>17. /\ ObjectEvent(o)
         /\ \/ IsIgnored(e) /\ SkippedEvent(o)
            \/ ~ IsIgnored(e) /\ UpdateBlobInfo(e)
    BY <1>7, <1>8, <1>10, <1>12, <1>13, <1>14, <1>15, <1>16, ObjectEventSplit
  <1>18. SkippedEvent(o) => UNCHANGED info /\ InitialKept
    BY DEF SkippedEvent, InitialKept
  <1>19. info.initial \in Nat
    BY <1>1, FieldTypes DEF Matches
  <1>20. InitialKept => info'.initial <= epoch
    BY <1>5, <1>19 DEF InitialKept
  <1> QED BY <1>2, <1>4, <1>7, <1>13, <1>14, <1>17, <1>18, <1>20

-----------------------------------------------------------------------------
(* The events keep the invariant *)

(* An event about an object, whichever it is.                              *)
LEMMA ObjectEventInv ==
  ASSUME TablesInv, CollectedInv, TxnInv, NEW o \in Objects, ObjectEvent(o)
  PROVE  TablesInv' /\ CollectedInv' /\ TxnInv'
  <1>1. /\ TypeInv /\ ObjectsInv /\ TrackedInv /\ Matches(info, table) /\ UntrackedInv /\ PoolsInv
    BY DEF TablesInv
  <1>2. PICK obj : obj = objects'[o]
    OBVIOUS
  <1>3. /\ gc = "idle" /\ handled' \in Nat /\ replay = FALSE
        /\ UNCHANGED <<epoch, pools, replay, gc, task, epochAtStart>>
        /\ Updated(objects, objects', o, obj)
        /\ IsObject(obj) /\ EndOf(obj, pools) > epoch
        /\ deletions' \in {deletions, epoch}
        /\ UNCHANGED poolTable
    BY <1>2 DEF ObjectEvent, SkippedEvent, HandledEvent
  <1>4. \/ /\ UNCHANGED <<info, table, txn>>
           /\ table[o] = NoEntry /\ epochAtStart > 0
           /\ obj.kind # "pooled" /\ obj.end <= epochAtStart
        \/ /\ Updated(table, table', o, Entry(obj))
           /\ Matches(info', table')
           /\ txn' = [txn EXCEPT !.does = "nothing"]
           /\ epoch >= FirstCompleteEpoch /\ (epochAtStart > 0 => obj.end > epochAtStart)
    BY <1>2 DEF ObjectEvent, SkippedEvent, HandledEvent
  <1>5. /\ objects'[o] = obj /\ objects' \in Tables
        /\ \A y \in Objects \ {o} : objects'[y] = objects[y]
    BY <1>3 DEF Updated
  <1>6. /\ table' \in Tables /\ table'[o] \in {NoEntry, obj}
        /\ table'[o] # NoEntry =>
             /\ obj.status = "live" /\ epoch >= FirstCompleteEpoch
             /\ epochAtStart > 0 => obj.end > epochAtStart
        /\ \A y \in Objects \ {o} : table'[y] = table[y]
    BY <1>1, <1>4 DEF Updated, Entry, TypeInv
  <1>7. obj # NoEntry /\ obj.end \in Nat
    BY <1>3 DEF IsObject, NoEntry, NoObject, Records
  <1>8. /\ epoch \in Nat \ {0} /\ epochAtStart \in Nat
        /\ FirstCompleteEpoch \in Nat /\ FirstCompleteEpoch <= epochAtStart
    BY <1>1, StartEpochs
  <1>9. TypeInv'
    <2>1. txn' \in [by : {"none", "task", "worker"}, does : {"nothing", "data", "both"}]
      BY <1>1, <1>4 DEF TypeInv
    <2>2. deletions' \in 0 .. epoch
      BY <1>1, <1>3, <1>8 DEF TypeInv
    <2> QED BY <1>1, <1>3, <1>5, <1>6, <2>1, <2>2 DEF TypeInv
  <1>10. ObjectsInv'
    BY <1>1, <1>3, <1>5 DEF ObjectsInv, IsObject
  <1>11. TrackedInv'
    <2>1. FirstCompleteEpoch' = FirstCompleteEpoch
      BY <1>3 DEF FirstCompleteEpoch
    <2> QED BY <1>1, <1>3, <1>5, <1>6, <2>1 DEF TrackedInv
  <1>12. UntrackedInv'
    <2> SUFFICES ASSUME NEW y \in LiveObjects', table'[y] = NoEntry
                 PROVE  /\ epochAtStart' > 0 /\ objects'[y].kind # "pooled"
                        /\ objects'[y].end <= epochAtStart'
      BY DEF UntrackedInv
    <2>1. y \in Objects /\ objects'[y].status = "live" /\ EndOf(objects'[y], pools) > epoch
      BY <1>3 DEF LiveObjects
    <2>2. CASE y = o
      <3>1. Entry(obj) = obj
        BY <1>5, <2>1, <2>2 DEF Entry
      <3>2. Updated(table, table', o, Entry(obj)) => table'[o] = obj
        BY <3>1 DEF Updated
      <3> QED BY <1>3, <1>4, <1>5, <1>7, <2>2, <3>2
    <2>3. CASE y # o
      <3>1. objects'[y] = objects[y] /\ table[y] = NoEntry
        BY <1>5, <1>6, <2>1, <2>3
      <3>2. y \in LiveObjects
        BY <2>1, <3>1 DEF LiveObjects
      <3> QED BY <1>1, <1>3, <3>1, <3>2 DEF UntrackedInv
    <2> QED BY <2>2, <2>3
  <1>13. PoolsInv'
    BY <1>1, <1>3 DEF PoolsInv
  <1>14. Matches(info, table)'
    BY <1>1, <1>4
  <1>15. CollectedInv'
    <2> SUFFICES ASSUME NEW y \in Objects PROVE ~ Expired(table[y])'
      BY <1>3 DEF CollectedInv
    <2>1. CASE y # o
      <3>1. ~ Expired(table[y]) /\ table'[y] = table[y]
        BY <1>3, <1>6, <2>1 DEF CollectedInv
      <3> QED BY <1>3, <3>1 DEF Expired, EndOf
    <2>2. CASE y = o
      <3>1. EndOf(obj, poolTable) = EndOf(obj, pools)
        BY <1>1, <1>3 DEF EndOf, PoolsInv, IsObject
      <3>2. table'[o] # NoEntry => EndOf(table'[o], poolTable) > epoch
        BY <1>3, <1>6, <3>1
      <3>3. EndOf(obj, pools) \in Nat
        BY <1>1, <1>3, <1>7 DEF EndOf, IsObject, TypeInv
      <3> QED BY <1>3, <1>6, <1>8, <2>2, <3>1, <3>2, <3>3 DEF Expired, EndOf
    <2> QED BY <2>1, <2>2
  <1>16. TxnInv'
    <2>1. txn \in [by : {"none", "task", "worker"}, does : {"nothing", "data", "both"}]
          /\ deletions \in Nat
      BY <1>1, <1>8 DEF TypeInv
    <2>2. /\ txn'.by = txn.by
          /\ txn'.by = "task" => epoch' >= epochAtStart'
          /\ txn'.by = "worker" => deletions' > 0
      BY <1>3, <1>4, <1>8, <2>1 DEF TxnInv
    <2>3. CASE txn' = [txn EXCEPT !.does = "nothing"]
      BY <2>1, <2>2, <2>3 DEF TxnInv
    <2>4. CASE /\ UNCHANGED <<info, table, txn>>
               /\ table[o] = NoEntry /\ epochAtStart > 0
               /\ obj.kind # "pooled" /\ obj.end <= epochAtStart
      <3>1. epoch < epochAtStart
        BY <1>3, <1>7, <1>8, <2>4 DEF EndOf
      <3>2. /\ txn'.does = "both" => Valid(info') /\ \A y \in Objects : table'[y] = NoEntry
            /\ txn'.by = "none" => txn'.does = "nothing"
        BY <2>4 DEF TxnInv
      <3> QED BY <1>3, <2>2, <3>1, <3>2 DEF TxnInv
    <2> QED BY <1>4, <2>3, <2>4
  <1> QED BY <1>9, <1>10, <1>11, <1>12, <1>13, <1>14, <1>15, <1>16 DEF TablesInv

(* Steps that keep the pools' end epochs where they matter.                *)
LEMMA PoolEventInv ==
  ASSUME TablesInv, CollectedInv, TxnInv, UNCHANGED epochAtStart, epochAtStart = 0,
         NEW p \in Pools, NEW end \in Ends, CreatePool(p, end) \/ ExtendPool(p, end)
  PROVE  /\ TablesInv' /\ CollectedInv' /\ TxnInv'
         /\ UNCHANGED <<epoch, info, metadata>> /\ LiveCertified' = LiveCertified
  <1>1. /\ TypeInv /\ ObjectsInv /\ TrackedInv /\ Matches(info, table) /\ UntrackedInv /\ PoolsInv
    BY DEF TablesInv
  <1>2. PICK e : /\ Read(e) /\ IsPoolEvent(e) /\ e.pool = p /\ e.end = end
                 /\ pools' = [pools EXCEPT ![p] = end] /\ UNCHANGED <<objects, deletions>>
                 /\ pools[p] = 0 \/ (pools[p] > epoch /\ end > pools[p])
    BY DEF CreatePool, ExtendPool, PoolEvent, IsPoolEvent
  <1>3. ~ IsIgnored(e)
    BY DEF IsIgnored
  <1>4. /\ gc = "idle" /\ replay = FALSE /\ handled' \in Nat
        /\ UNCHANGED <<epoch, replay, gc, task, metadata>>
        /\ UpdateStoragePoolInfo(e)
    BY <1>1, <1>2, <1>3, ReadEffect
  <1>5. /\ poolTable' = [poolTable EXCEPT ![p] = Later(@, end)]
        /\ UNCHANGED <<info, table, txn>>
    BY <1>2, <1>4 DEF UpdateStoragePoolInfo
  <1>6. /\ epoch \in Nat \ {0} /\ epochAtStart \in Nat /\ end \in Nat /\ end > epoch
    BY <1>1, StartEpochs
  <1>7. /\ pools \in [Pools -> Nat] /\ poolTable \in [Pools -> Nat]
        /\ poolTable[p] <= pools[p] /\ (pools[p] > epoch => poolTable[p] = pools[p])
    BY <1>1 DEF TypeInv, PoolsInv
  <1>8. /\ pools' \in [Pools -> Nat] /\ poolTable' \in [Pools -> Nat]
        /\ pools'[p] = end /\ poolTable'[p] = end
        /\ \A q \in Pools \ {p} : pools'[q] = pools[q] /\ poolTable'[q] = poolTable[q]
    BY <1>2, <1>5, <1>6, <1>7 DEF Later
  <1>9. TypeInv'
    BY <1>1, <1>2, <1>4, <1>5, <1>8 DEF TypeInv
  <1>10. ObjectsInv'
    BY <1>1, <1>2, <1>4, <1>6, <1>7, <1>8 DEF ObjectsInv, IsObject
  <1>11. TrackedInv'
    BY <1>1, <1>2, <1>4, <1>5 DEF TrackedInv, FirstCompleteEpoch
  <1>12. \A y \in Objects : objects[y] # NoObject =>
           (EndOf(objects[y], pools') > epoch <=> EndOf(objects[y], pools) > epoch)
    BY <1>1, <1>2, <1>6, <1>7, <1>8 DEF EndOf, ObjectsInv, IsObject
  <1>13. LiveObjects' = LiveObjects
    <2>1. NoObject.status # "live"
      BY DEF NoObject
    <2> QED BY <1>2, <1>4, <1>12, <2>1 DEF LiveObjects
  <1>14. UntrackedInv'
    BY <1>1, <1>2, <1>5, <1>13 DEF UntrackedInv
  <1>15. PoolsInv'
    BY <1>1, <1>4, <1>6, <1>8 DEF PoolsInv
  <1>16. CollectedInv'
    <2> SUFFICES ASSUME NEW y \in Objects PROVE ~ Expired(table[y])'
      BY <1>4 DEF CollectedInv
    <2>1. ~ Expired(table[y]) /\ table'[y] = table[y]
      BY <1>4, <1>5 DEF CollectedInv
    <2>2. CASE table[y] # NoEntry
      <3>1. table[y] = objects[y] /\ IsObject(objects[y])
        BY <1>1, <2>2, EntriesAreObjects
      <3>2. CASE table[y].kind = "pooled"
        <4>1. table[y].pool \in Pools
          BY <3>1, <3>2 DEF IsObject
        <4>2. poolTable'[table[y].pool] \in Nat /\ poolTable[table[y].pool] \in Nat
              /\ poolTable[table[y].pool] > epoch
          BY <1>6, <1>7, <1>8, <2>1, <2>2, <3>2, <4>1 DEF Expired, EndOf
        <4>3. poolTable'[table[y].pool] > epoch
          BY <1>6, <1>8, <4>1, <4>2
        <4> QED BY <1>4, <2>1, <3>2, <4>2, <4>3, <1>6 DEF Expired, EndOf
      <3>3. CASE table[y].kind # "pooled"
        BY <1>4, <2>1, <3>3 DEF Expired, EndOf
      <3> QED BY <3>2, <3>3
    <2>3. CASE table[y] = NoEntry
      BY <2>1, <2>3 DEF Expired
    <2> QED BY <2>2, <2>3
  <1>17. TxnInv'
    BY <1>2, <1>4, <1>5, <1>13 DEF TxnInv
  <1>18. LiveCertified' = LiveCertified
    BY <1>2, <1>13 DEF LiveCertified
  <1>19. Matches(info, table)'
    BY <1>1, <1>5
  <1> QED BY <1>4, <1>5, <1>9, <1>10, <1>11, <1>14, <1>15, <1>16, <1>17, <1>18, <1>19 DEF TablesInv

-----------------------------------------------------------------------------
(* What the aggregate says about the objects on chain *)

(* A live object has an entry, once the epoch of the start is reached.     *)
LEMMA LiveIsTracked ==
  ASSUME TablesInv, epoch >= epochAtStart, NEW o \in LiveObjects
  PROVE  /\ o \in Objects /\ table[o] = objects[o] /\ table[o] # NoEntry /\ IsObject(table[o])
         /\ table[o].kind # "pooled" => table[o].end > epoch
  <1>1. TypeInv /\ ObjectsInv /\ TrackedInv /\ UntrackedInv
    BY DEF TablesInv
  <1>2. /\ o \in Objects /\ IsObject(objects[o]) /\ EndOf(objects[o], pools) > epoch
        /\ objects[o].end \in Nat
    BY <1>1, LiveAreObjects DEF IsObject, Records
  <1>3. epoch \in Nat /\ epochAtStart \in Nat
    BY <1>1, StartEpochs
  <1>4. table[o] # NoEntry
    BY <1>1, <1>2, <1>3 DEF UntrackedInv, EndOf
  <1>5. table[o] = objects[o]
    BY <1>1, <1>2, <1>4 DEF TrackedInv
  <1> QED BY <1>2, <1>4, <1>5 DEF EndOf

(* After garbage collection an entry is a live object.                     *)
LEMMA TrackedIsLive ==
  ASSUME TablesInv, CollectedInv, gc = "idle", NEW o \in Objects, table[o] # NoEntry
  PROVE  o \in LiveObjects /\ (table[o].certified > 0 => o \in LiveCertified)
  <1>1. TypeInv /\ ObjectsInv /\ TrackedInv /\ PoolsInv
    BY DEF TablesInv
  <1>2. /\ table[o] = objects[o] /\ IsObject(objects[o]) /\ objects[o].status = "live"
        /\ epoch \in Nat /\ objects[o].end \in Nat
    BY <1>1, EntriesAreObjects, StartEpochs DEF TrackedInv, IsObject, Records
  <1>3. ~ (EndOf(objects[o], poolTable) <= epoch)
    BY <1>2 DEF CollectedInv, Expired
  <1>4. EndOf(objects[o], pools) > epoch
    <2>1. CASE objects[o].kind = "pooled"
      <3>1. objects[o].pool \in Pools
        BY <1>2, <2>1 DEF IsObject
      <3>2. /\ poolTable[objects[o].pool] \in Nat /\ pools[objects[o].pool] \in Nat
            /\ poolTable[objects[o].pool] <= pools[objects[o].pool]
        BY <1>1, <3>1 DEF TypeInv, PoolsInv
      <3> QED BY <1>2, <1>3, <2>1, <3>2 DEF EndOf
    <2>2. CASE objects[o].kind # "pooled"
      BY <1>2, <1>3, <2>2 DEF EndOf
    <2> QED BY <2>1, <2>2
  <1> QED BY <1>2, <1>4 DEF LiveObjects, LiveCertified

(* The aggregate says that a blob with a live object is registered, in this epoch and before. *)
LEMMA LiveIsRegistered ==
  ASSUME TablesInv, epoch >= epochAtStart, info.version # "Invalid", LiveObjects # {},
         NEW e \in 0 .. epoch
  PROVE  IsRegistered(info, e)
  <1>1. TypeInv /\ Matches(info, table)
    BY DEF TablesInv
  <1>2. PICK o \in LiveObjects : TRUE
    OBVIOUS
  <1>3. /\ o \in Objects /\ table[o] # NoEntry /\ IsObject(table[o])
        /\ table[o].kind # "pooled" => table[o].end > epoch
    BY <1>2, LiveIsTracked
  <1>4. table[o].end \in Nat /\ table[o].kind \in ObjectKinds /\ epoch \in Nat /\ table \in Tables
    BY <1>1, <1>3 DEF IsObject, Records, TypeInv
  <1>5. Valid(info) /\ info \in Infos /\ Agrees(info, table)
    BY <1>1, <1>3, <1>4, TrackedIsValid, Versions DEF Matches
  <1>6. IsEntry(table[o], table[o].kind) /\ o \in EntriesOf(table, table[o].kind)
    BY <1>3 DEF IsEntry, EntriesOf
  <1>7. NumEntries(table, table[o].kind) # 0 /\ NumEntries(table, table[o].kind) \in Nat
    BY <1>3, <1>4, <1>6, EntriesCount
  <1>8. CASE table[o].kind = "permanent"
    <2>1. info.permanent.end >= table[o].end /\ info.permanent.end \in Nat
      BY <1>5, <1>6, <1>8, FieldTypes DEF Agrees, EndsOfPermanent, PermanentInfos
    <2>2. info.permanent.end > e
      BY <1>3, <1>4, <1>8, <2>1
    <2> QED BY <1>5, <2>2 DEF IsRegistered
  <1>9. CASE table[o].kind = "deletable"
    <2>1. info.deletable > 0
      BY <1>5, <1>7, <1>9 DEF Agrees, CountsMatch
    <2>2. info.version = "V1" => info.latestRegistered >= table[o].end
      BY <1>5, <1>6, <1>9 DEF Agrees, EndsOfDeletable
    <2>3. info.version = "V1" => info.latestRegistered > e
      BY <1>3, <1>4, <1>5, <1>9, <2>2, FieldTypes
    <2> QED BY <1>5, <2>1, <2>3 DEF IsRegistered, AnyDeletable
  <1>10. CASE table[o].kind = "pooled"
    <2>1. info.pooled > 0
      BY <1>5, <1>7, <1>10 DEF Agrees, CountsMatch
    <2> QED BY <1>5, <2>1 DEF IsRegistered
  <1> QED BY <1>4, <1>8, <1>9, <1>10 DEF ObjectKinds

(* An aggregate that agrees with the table says that a blob with a live certified object is certified. *)
LEMMA LiveIsCertified ==
  ASSUME TablesInv, epoch >= epochAtStart, LiveCertified # {},
         NEW v \in Infos, Valid(v), Agrees(v, table), v.initial <= epoch
  PROVE  IsCertified(v, epoch)
  <1>1. TypeInv
    BY DEF TablesInv
  <1>2. PICK o \in LiveObjects : objects[o].certified > 0
    BY DEF LiveCertified
  <1>3. /\ o \in Objects /\ table[o] # NoEntry /\ IsObject(table[o])
        /\ table[o].kind # "pooled" => table[o].end > epoch
        /\ table[o].certified > 0
    BY <1>2, LiveIsTracked
  <1>4. table[o].end \in Nat /\ table[o].kind \in ObjectKinds /\ epoch \in Nat /\ table \in Tables
    BY <1>1, <1>3 DEF IsObject, Records, TypeInv
  <1>5. IsCertifiedEntry(table[o], table[o].kind) /\ o \in CertifiedOf(table, table[o].kind)
    BY <1>3 DEF IsCertifiedEntry, CertifiedOf
  <1>6. NumCertified(table, table[o].kind) # 0 /\ NumCertified(table, table[o].kind) \in Nat
    BY <1>3, <1>4, <1>5, EntriesCount
  <1>7. v.initial \in 1 .. epoch
    <2>1. AnyCertified(table)
      BY <1>3 DEF AnyCertified
    <2>2. v.initial > 0 /\ v.initial \in Nat
      BY <2>1, FieldTypes DEF Agrees, InitialMatches
    <2> QED BY <1>4, <2>2
  <1>8. CASE table[o].kind = "permanent"
    <2>1. v.permanentCertified.end >= table[o].end /\ v.permanentCertified.end \in Nat
      BY <1>5, <1>8, FieldTypes DEF Agrees, EndsOfPermanent, PermanentInfos
    <2>2. v.permanentCertified.end > epoch
      BY <1>3, <1>4, <1>8, <2>1
    <2> QED BY <1>7, <2>2 DEF IsCertified
  <1>9. CASE table[o].kind = "deletable"
    <2>1. v.deletableCertified > 0
      BY <1>6, <1>9 DEF Agrees, CountsMatch
    <2>2. v.version = "V1" => v.latestCertified >= table[o].end
      BY <1>5, <1>9 DEF Agrees, EndsOfDeletable
    <2>3. v.version = "V1" => v.latestCertified > epoch
      BY <1>3, <1>4, <1>9, <2>2, FieldTypes
    <2> QED BY <1>7, <2>1, <2>3 DEF IsCertified, AnyDeletableCertified
  <1>10. CASE table[o].kind = "pooled"
    <2>1. v.pooledCertified > 0
      BY <1>6, <1>10 DEF Agrees, CountsMatch
    <2> QED BY <1>7, <2>1 DEF IsCertified
  <1> QED BY <1>4, <1>8, <1>9, <1>10 DEF ObjectKinds

(* After garbage collection it says so of no other blob.                   *)
LEMMA RegisteredIsLive ==
  ASSUME TablesInv, CollectedInv, gc = "idle", IsRegistered(info, epoch)
  PROVE  LiveObjects # {}
  <1>1. TypeInv /\ Matches(info, table)
    BY DEF TablesInv
  <1>2. Agrees(info, table) /\ table \in Tables /\ epoch \in Nat /\ info \in Infos
    BY <1>1, Versions DEF IsRegistered, Valid, TypeInv, Matches
  <1>3. info.permanent.end > epoch => info.permanent.count # 0
    BY <1>2 DEF Agrees, EndsOfPermanent
  <1>4. \E k \in ObjectKinds : NumEntries(table, k) # 0
    BY <1>2, <1>3 DEF Agrees, CountsMatch, IsRegistered, AnyDeletable, ObjectKinds
  <1>5. \E o \in Objects : table[o] # NoEntry
    BY <1>2, <1>4, EntriesCount DEF IsEntry
  <1> QED BY <1>5, TrackedIsLive

LEMMA CertifiedIsLive ==
  ASSUME TablesInv, CollectedInv, gc = "idle", NEW v \in Infos, Agrees(v, table),
         IsCertified(v, epoch)
  PROVE  LiveCertified # {}
  <1>1. TypeInv
    BY DEF TablesInv
  <1>2. table \in Tables /\ epoch \in Nat
    BY <1>1 DEF TypeInv
  <1>3. v.permanentCertified.end > epoch => v.permanentCertified.count # 0
    BY <1>2 DEF Agrees, EndsOfPermanent
  <1>4. \E k \in ObjectKinds : NumCertified(table, k) # 0
    BY <1>2, <1>3 DEF Agrees, CountsMatch, IsCertified, AnyDeletableCertified, ObjectKinds
  <1>5. \E o \in Objects : table[o] # NoEntry /\ table[o].certified > 0
    BY <1>2, <1>4, EntriesCount DEF IsCertifiedEntry
  <1> QED BY <1>5, TrackedIsLive

-----------------------------------------------------------------------------
(* Every step keeps the invariant *)

\* Data that is deleted is not the data of a live blob.
LiveDataStep ==
  metadata /\ ~metadata' => \/ LiveObjects' = {}
                            \/ info.version = "Invalid"
                            \/ epoch < epochAtStart

\* All that a step has to show.
GoodStep == TablesInv' /\ CollectedInv' /\ TxnInv' /\ InitialStep /\ LiveDataStep

coreVars == <<epoch, objects, pools, info, table, poolTable, epochAtStart>>

(* A step that does not touch the tables.                                  *)
LEMMA QuietStep ==
  ASSUME TablesInv, SinceInv, UNCHANGED coreVars, TypeInv', CollectedInv', TxnInv', LiveDataStep
  PROVE  GoodStep
  <1>1. ObjectsInv' /\ TrackedInv'
    BY DEF TablesInv, coreVars, ObjectsInv, IsObject, TrackedInv, FirstCompleteEpoch
  <1>2. LiveObjects' = LiveObjects /\ LiveCertified' = LiveCertified
    BY DEF coreVars, LiveObjects, LiveCertified
  <1>3. UntrackedInv'
    BY <1>2 DEF TablesInv, coreVars, UntrackedInv
  <1>4. PoolsInv' /\ Matches(info, table)'
    BY DEF TablesInv, coreVars, PoolsInv
  <1>5. InitialStep
    BY <1>2 DEF InitialStep, SinceInv, coreVars
  <1> QED BY <1>1, <1>3, <1>4, <1>5 DEF GoodStep, TablesInv

LEMMA ReplayStep ==
  ASSUME IInv, UNCHANGED epochAtStart, Replay
  PROVE  GoodStep
  <1>1. TablesInv /\ SinceInv /\ TypeInv /\ CollectedInv /\ TxnInv
    BY DEF IInv, TablesInv
  <1>2. HasEventBeenHandled(handled)
    BY <1>1 DEF Replay, TypeInv, HasEventBeenHandled
  <1>3. UNCHANGED <<tables, txn, chain, gc, task, deletions, metadata>> /\ replay' = FALSE
    BY <1>2 DEF Replay, HandleEvent
  <1>4. UNCHANGED coreVars /\ UNCHANGED <<handled, txn, gc, task, deletions, metadata>>
    BY <1>3 DEF coreVars, tables, chain
  <1>5. TypeInv'
    BY <1>1, <1>3, <1>4 DEF TypeInv, coreVars
  <1>6. CollectedInv' /\ TxnInv'
    BY <1>1, <1>4 DEF CollectedInv, TxnInv, coreVars, Expired, EndOf, Phase, LiveObjects
  <1>7. LiveDataStep
    BY <1>4 DEF LiveDataStep
  <1> QED BY <1>1, <1>4, <1>5, <1>6, <1>7, QuietStep

LEMMA FinishTableStep ==
  ASSUME IInv, UNCHANGED epochAtStart, FinishTable
  PROVE  GoodStep
  <1>1. TablesInv /\ SinceInv /\ TypeInv /\ CollectedInv /\ TxnInv
    BY DEF IInv, TablesInv
  <1>2. /\ UNCHANGED coreVars /\ UNCHANGED <<handled, replay, txn, deletions, metadata>>
        /\ gc \in {"regular", "pooled"} /\ ExpiredObjects = {}
        /\ gc' = IF gc = "regular" THEN "pooled" ELSE "idle"
        /\ task' = IF gc = "pooled" THEN epoch ELSE task
    BY DEF FinishTable, coreVars, tables, chain
  <1>3. TypeInv'
    <2>1. task' \in 0 .. epoch
      BY <1>1, <1>2 DEF TypeInv
    <2> QED BY <1>1, <1>2, <2>1 DEF TypeInv, coreVars
  <1>4. CollectedInv'
    <2>1. \A o \in Objects : Expired(table[o]) => gc # Phase(table[o])
      BY <1>2 DEF ExpiredObjects
    <2>2. \A o \in Objects : Phase(table[o]) \in {"regular", "pooled"}
      BY DEF Phase
    <2>3. CASE gc = "regular"
      <3>1. \A o \in Objects : Phase(table[o]) = "regular" => ~ Expired(table[o])
        BY <2>1, <2>3
      <3> QED BY <1>2, <2>3, <3>1 DEF CollectedInv, coreVars, Expired, EndOf, Phase
    <2>4. CASE gc = "pooled"
      <3>1. \A o \in Objects : ~ Expired(table[o])
        BY <1>1, <2>1, <2>2, <2>4 DEF CollectedInv
      <3> QED BY <1>2, <2>4, <3>1 DEF CollectedInv, coreVars, Expired, EndOf, Phase
    <2> QED BY <1>2, <2>3, <2>4
  <1>5. TxnInv'
    BY <1>1, <1>2 DEF TxnInv, coreVars, LiveObjects
  <1>6. LiveDataStep
    BY <1>2 DEF LiveDataStep
  <1> QED BY <1>1, <1>2, <1>3, <1>4, <1>5, <1>6, QuietStep

(* A transaction is opened, by phase 2 of garbage collection or by a worker. *)
LEMMA BeginDeletionStep ==
  ASSUME IInv, UNCHANGED epochAtStart, DeleteExpiredBlobData \/ AttemptToDeleteBlobData
  PROVE  GoodStep
  <1>1. TablesInv /\ SinceInv /\ TypeInv /\ CollectedInv /\ TxnInv /\ Matches(info, table)
    BY DEF IInv, TablesInv
  <1>2. PICK by \in {"task", "worker"} : \E e \in 0 .. epoch :
          /\ BeginDeletion(by, e)
          /\ by = "task" => epoch >= epochAtStart
          /\ by = "worker" => deletions > 0
    BY <1>1 DEF DeleteExpiredBlobData, AttemptToDeleteBlobData, TypeInv
  <1>3. PICK e \in 0 .. epoch :
          /\ BeginDeletion(by, e)
          /\ by = "task" => epoch >= epochAtStart
          /\ by = "worker" => deletions > 0
    BY <1>2
  <1>4. /\ UNCHANGED coreVars /\ UNCHANGED <<handled, replay, gc, task, deletions, metadata>>
        /\ ~ IsRegistered(info, e)
        /\ txn' = [by |-> by, does |-> IF CanBlobInfoBeDeleted(info, e) THEN "both" ELSE "data"]
    BY <1>3 DEF BeginDeletion, coreVars, tables, chain, CanDataBeDeleted
  <1>5. TypeInv'
    BY <1>1, <1>2, <1>4 DEF TypeInv, coreVars
  <1>6. CollectedInv'
    BY <1>1, <1>4 DEF CollectedInv, coreVars, Expired, EndOf, Phase
  <1>7. LiveObjects = {} \/ info.version = "Invalid" \/ epoch < epochAtStart
    <2>1. epoch \in Nat /\ epochAtStart \in Nat
      BY <1>1, StartEpochs
    <2> QED BY <1>1, <1>4, <2>1, LiveIsRegistered
  <1>8. ASSUME CanBlobInfoBeDeleted(info, e)
        PROVE  Valid(info) /\ \A o \in Objects : table[o] = NoEntry
    <2>1. Valid(info) /\ info.deletable = 0 /\ info.permanent.count = 0 /\ info.pooled = 0
      BY <1>8 DEF CanBlobInfoBeDeleted, NoPermanent
    <2>2. \A k \in ObjectKinds : NumEntries(table, k) = 0
      BY <1>1, <2>1, Versions DEF Agrees, CountsMatch, ObjectKinds
    <2>3. \A o \in Objects : table[o] # NoEntry => table[o].kind \in ObjectKinds
      BY <1>1, EntriesAreObjects DEF TablesInv
    <2>4. \A o \in Objects : \A k \in ObjectKinds : ~ IsEntry(table[o], k)
      BY <1>1, <2>2, EntriesCount DEF TypeInv
    <2> QED BY <2>1, <2>3, <2>4 DEF IsEntry
  <1>9. TxnInv'
    <2>1. LiveObjects' = LiveObjects
      BY <1>4 DEF LiveObjects, coreVars
    <2>2. /\ txn'.by = by /\ by \in {"task", "worker"}
          /\ txn'.does = IF CanBlobInfoBeDeleted(info, e) THEN "both" ELSE "data"
      BY <1>4
    <2> QED BY <1>3, <1>4, <1>7, <1>8, <2>1, <2>2 DEF TxnInv, coreVars
  <1>10. LiveDataStep
    BY <1>4 DEF LiveDataStep
  <1> QED BY <1>1, <1>4, <1>5, <1>6, <1>9, <1>10, QuietStep

LEMMA KeepBlobDataStep ==
  ASSUME IInv, UNCHANGED epochAtStart, KeepBlobData
  PROVE  GoodStep
  <1>1. TablesInv /\ SinceInv /\ TypeInv /\ CollectedInv /\ TxnInv
    BY DEF IInv, TablesInv
  <1>2. /\ UNCHANGED coreVars /\ UNCHANGED <<handled, replay, txn, gc, task, metadata>>
        /\ txn.by # "worker" /\ deletions' = 0
    BY DEF KeepBlobData, coreVars, tables, chain
  <1>3. TypeInv'
    BY <1>1, <1>2 DEF TypeInv, coreVars
  <1>4. CollectedInv' /\ TxnInv'
    BY <1>1, <1>2 DEF CollectedInv, TxnInv, coreVars, Expired, EndOf, Phase, LiveObjects
  <1>5. LiveDataStep
    BY <1>2 DEF LiveDataStep
  <1> QED BY <1>1, <1>2, <1>3, <1>4, <1>5, QuietStep

LEMMA MetadataStep ==
  ASSUME IInv, UNCHANGED epochAtStart, StoreMetadata \/ DeleteInvalidBlobData
  PROVE  GoodStep
  <1>1. TablesInv /\ SinceInv /\ TypeInv /\ CollectedInv /\ TxnInv
    BY DEF IInv, TablesInv
  <1>2. /\ UNCHANGED coreVars /\ UNCHANGED <<handled, replay, txn, gc, task, deletions>>
        /\ UNCHANGED metadata \/ info.version = "Invalid"
    BY DEF StoreMetadata, DeleteInvalidBlobData, coreVars, tables, chain, deleting
  <1>3. TypeInv'
    BY <1>1, <1>2 DEF TypeInv, coreVars
  <1>4. CollectedInv' /\ TxnInv'
    BY <1>1, <1>2 DEF CollectedInv, TxnInv, coreVars, Expired, EndOf, Phase, LiveObjects
  <1>5. LiveDataStep
    BY <1>2 DEF LiveDataStep
  <1> QED BY <1>1, <1>2, <1>3, <1>4, <1>5, QuietStep

LEMMA CrashStep ==
  ASSUME IInv, UNCHANGED epochAtStart, Crash
  PROVE  GoodStep
  <1>1. TablesInv /\ SinceInv /\ TypeInv /\ CollectedInv /\ TxnInv
    BY DEF IInv, TablesInv
  <1>2. /\ UNCHANGED coreVars /\ UNCHANGED <<handled, deletions, metadata>>
        /\ replay' = (handled > 0) /\ txn' = NoTxn
        /\ gc' = "pools" \/ (gc' = "idle" /\ gc = "idle")
        /\ task' \in 0 .. (IF gc = "idle" THEN epoch ELSE epoch - 1)
    BY DEF Crash, coreVars, tables, chain
  <1>3. TypeInv'
    <2>1. task' \in 0 .. epoch
      BY <1>1, <1>2 DEF TypeInv
    <2> QED BY <1>1, <1>2, <2>1 DEF TypeInv, coreVars, NoTxn
  <1>4. CollectedInv' /\ TxnInv'
    BY <1>1, <1>2 DEF CollectedInv, TxnInv, coreVars, Expired, EndOf, Phase, NoTxn
  <1>5. LiveDataStep
    BY <1>2 DEF LiveDataStep
  <1> QED BY <1>1, <1>2, <1>3, <1>4, <1>5, QuietStep

(* A step that only rewrites the aggregate.                                *)
LEMMA AggregateStep ==
  ASSUME IInv, UNCHANGED <<epoch, objects, pools, table, poolTable, epochAtStart, gc>>,
         TypeInv', TxnInv', Matches(info', table), info'.initial \in {0, info.initial},
         info'.version # "Invalid" => \/ info.version # "Invalid" /\ info'.initial = info.initial
                                      \/ \A o \in Objects : table[o] = NoEntry,
         LiveDataStep
  PROVE  GoodStep
  <1>1. TablesInv /\ SinceInv /\ TypeInv /\ CollectedInv /\ TxnInv
    BY DEF IInv, TablesInv
  <1>2. ObjectsInv' /\ TrackedInv'
    BY <1>1 DEF TablesInv, ObjectsInv, IsObject, TrackedInv, FirstCompleteEpoch
  <1>3. LiveObjects' = LiveObjects /\ LiveCertified' = LiveCertified
    BY DEF LiveObjects, LiveCertified
  <1>4. UntrackedInv'
    BY <1>1, <1>3 DEF TablesInv, UntrackedInv
  <1>5. PoolsInv' /\ Matches(info, table)'
    BY <1>1 DEF TablesInv, PoolsInv
  <1>6. CollectedInv'
    BY <1>1 DEF CollectedInv, Expired, EndOf, Phase
  <1>7. InitialStep
    <2>1. info'.initial <= epoch'
      BY <1>1 DEF SinceInv, TypeInv
    <2>2. ASSUME LiveCertified # {}, epochAtStart = 0
          PROVE  \E o \in Objects : table[o] # NoEntry
      <3>1. PICK o \in LiveObjects : TRUE
        BY <2>2 DEF LiveCertified
      <3>2. epoch >= epochAtStart
        BY <1>1, <2>2, StartEpochs
      <3> QED BY <1>1, <3>1, <3>2, LiveIsTracked
    <2> QED BY <1>3, <2>1, <2>2 DEF InitialStep
  <1> QED BY <1>2, <1>4, <1>5, <1>6, <1>7 DEF GoodStep, TablesInv

LEMMA CommitDeletionStep ==
  ASSUME IInv, UNCHANGED epochAtStart, CommitDeletion
  PROVE  GoodStep
  <1>1. TablesInv /\ SinceInv /\ TypeInv /\ CollectedInv /\ TxnInv /\ Matches(info, table)
    BY DEF IInv, TablesInv
  <1>2. /\ UNCHANGED <<epoch, objects, pools, table, poolTable, gc>>
        /\ UNCHANGED <<handled, replay, task>>
        /\ metadata' = (metadata /\ txn.does = "nothing")
        /\ info' = IF txn.does = "both" THEN NoInfo ELSE info
        /\ deletions' = IF txn.by = "worker" THEN 0 ELSE deletions
        /\ txn' = NoTxn
    BY DEF CommitDeletion, chain
  <1>3. TypeInv'
    BY <1>1, <1>2 DEF TypeInv, NoTxn
  <1>4. TxnInv'
    BY <1>2 DEF TxnInv, NoTxn
  <1>5. LiveDataStep
    <2>1. LiveObjects' = LiveObjects
      BY <1>2 DEF LiveObjects
    <2> QED BY <1>1, <1>2, <2>1 DEF LiveDataStep, TxnInv
  <1>6. CASE txn.does # "both"
    <2>1. info' = info
      BY <1>2, <1>6
    <2>2. Matches(info', table)
      BY <1>1, <2>1
    <2> QED BY <1>2, <1>3, <1>4, <1>5, <2>1, <2>2, AggregateStep
  <1>7. CASE txn.does = "both"
    <2>1. info' = NoInfo /\ \A o \in Objects : table[o] = NoEntry
      BY <1>1, <1>2, <1>7 DEF TxnInv
    <2>2. NoInfo \in Infos /\ NoInfo.initial = 0
      BY DEF NoInfo, Default, Infos, PermanentInfos, NoPermanent
    <2>3. \A k : NumEntries(table, k) = 0 /\ NumCertified(table, k) = 0
      <3>1. table \in Tables
        BY <1>1 DEF TypeInv
      <3> QED BY <2>1, <3>1, EntriesCount DEF IsEntry, IsCertifiedEntry
    <2>4. CountsMatch(NoInfo, table)
      BY <2>3 DEF CountsMatch, NoInfo, Default, NoPermanent
    <2>5. EndsOfPermanent(NoInfo, table) /\ EndsOfDeletable(NoInfo, table)
      BY <2>1 DEF EndsOfPermanent, EndsOfDeletable, NoInfo, Default, NoPermanent, EntriesOf,
                  CertifiedOf, IsEntry, IsCertifiedEntry
    <2>6. InitialMatches(NoInfo, table)
      BY <2>1, <2>2 DEF InitialMatches, AnyCertified
    <2>7. Matches(info', table)
      BY <2>1, <2>2, <2>4, <2>5, <2>6 DEF Matches, Agrees
    <2> QED BY <1>2, <1>3, <1>4, <1>5, <2>1, <2>2, <2>7, AggregateStep
  <1> QED BY <1>6, <1>7

LEMMA PutMetadataStep ==
  ASSUME IInv, UNCHANGED epochAtStart, PutMetadata
  PROVE  GoodStep
  <1>1. TablesInv /\ SinceInv /\ TypeInv /\ CollectedInv /\ TxnInv /\ Matches(info, table)
    BY DEF IInv, TablesInv
  <1>2. /\ UNCHANGED <<epoch, objects, pools, table, poolTable, gc>>
        /\ UNCHANGED <<handled, replay, task, deletions>>
        /\ metadata' = TRUE
        /\ info' = Merge(info, [type |-> "MarkMetadataStored"])
        /\ txn' = [txn EXCEPT !.does = "nothing"]
    BY DEF PutMetadata, chain, TouchInfo
  <1>3. txn \in [by : {"none", "task", "worker"}, does : {"nothing", "data", "both"}]
    BY <1>1 DEF TypeInv
  <1>4. TypeInv'
    BY <1>1, <1>2, <1>3 DEF TypeInv
  <1>5. TxnInv'
    BY <1>1, <1>2, <1>3 DEF TxnInv
  <1>6. /\ Matches(info', table) /\ info'.initial = info.initial
        /\ info'.version = IF info = NoInfo THEN "V1" ELSE info.version
    BY <1>1, <1>2, MarkMatches
  <1>7. info'.version # "Invalid" => info.version # "Invalid"
    BY <1>6 DEF NoInfo, Default
  <1>8. LiveDataStep
    BY <1>2 DEF LiveDataStep
  <1> QED BY <1>2, <1>4, <1>5, <1>6, <1>7, <1>8, AggregateStep

LEMMA InvalidateStep ==
  ASSUME IInv, UNCHANGED epochAtStart, Invalidate
  PROVE  GoodStep
  <1>1. TablesInv /\ SinceInv /\ TypeInv /\ CollectedInv /\ TxnInv /\ Matches(info, table)
    BY DEF IInv, TablesInv
  <1>2. PICK e : e = [type |-> "MarkInvalid"]
    OBVIOUS
  <1>3. e.type = "MarkInvalid" /\ ~ IsPoolEvent(e) /\ ~ IsUntrackedExtension(e)
    BY <1>2 DEF IsPoolEvent, IsUntrackedExtension
  <1>4. Read(e) /\ UNCHANGED <<objects, pools, deletions>>
    BY <1>2 DEF Invalidate
  <1>5. /\ gc = "idle" /\ replay = FALSE /\ handled' \in Nat
        /\ UNCHANGED <<epoch, replay, gc, task, metadata>>
        /\ IsIgnored(e) => UNCHANGED <<info, table, poolTable, txn>>
        /\ ~ IsIgnored(e) => UpdateBlobInfo(e)
    BY <1>1, <1>3, <1>4, ReadEffect
  <1>6. txn \in [by : {"none", "task", "worker"}, does : {"nothing", "data", "both"}]
    BY <1>1 DEF TypeInv
  <1>7. LiveDataStep
    BY <1>5 DEF LiveDataStep
  <1>8. CASE UNCHANGED <<info, table, poolTable, txn>>
    <2>1. TypeInv'
      BY <1>1, <1>4, <1>5, <1>8 DEF TypeInv
    <2>2. CollectedInv' /\ TxnInv'
      BY <1>1, <1>4, <1>5, <1>8
      DEF CollectedInv, TxnInv, Expired, EndOf, Phase, LiveObjects
    <2>3. UNCHANGED coreVars
      BY <1>4, <1>5, <1>8 DEF coreVars
    <2> QED BY <1>1, <1>7, <2>1, <2>2, <2>3, QuietStep
  <1>9. CASE UpdateBlobInfo(e)
    <2>1. /\ info' = Merge(info, e) /\ UNCHANGED <<table, poolTable>>
          /\ txn' = [txn EXCEPT !.does = "nothing"]
      BY <1>3, <1>9 DEF UpdateBlobInfo, TouchInfo, MergeOperands
    <2>2. TypeInv'
      BY <1>1, <1>4, <1>5, <1>6, <2>1 DEF TypeInv
    <2>3. TxnInv'
      BY <1>1, <1>4, <1>5, <1>6, <2>1 DEF TxnInv
    <2>4. /\ Matches(info', table) /\ info'.version = "Invalid"
          /\ info'.initial \in {0, info.initial}
      BY <1>1, <1>2, <2>1, MarkMatches
    <2> QED BY <1>4, <1>5, <1>7, <2>1, <2>2, <2>3, <2>4, AggregateStep
  <1> QED BY <1>5, <1>8, <1>9

LEMMA EpochChangeStep ==
  ASSUME IInv, UNCHANGED epochAtStart, EpochChangeStart
  PROVE  GoodStep
  <1>1. /\ TablesInv /\ SinceInv /\ TypeInv /\ CollectedInv /\ TxnInv /\ Matches(info, table)
        /\ ObjectsInv /\ TrackedInv /\ UntrackedInv /\ PoolsInv
    BY DEF IInv, TablesInv
  <1>2. /\ UNCHANGED <<objects, pools, info, table, poolTable, handled>>
        /\ UNCHANGED <<replay, task, txn, deletions, metadata>>
        /\ epoch' = epoch + 1 /\ deletions = 0
        /\ gc' = IF epoch' < FirstCompleteEpoch THEN "idle" ELSE "pools"
    BY DEF EpochChangeStart, tables
  <1>3. /\ epoch \in Nat \ {0} /\ epochAtStart \in Nat /\ FirstCompleteEpoch \in Nat
        /\ FirstCompleteEpoch' = FirstCompleteEpoch
    BY <1>1, StartEpochs DEF FirstCompleteEpoch
  <1>4. TypeInv'
    <2>1. task \in 0 .. (epoch + 1) /\ 0 \in 0 .. (epoch + 1) /\ epoch + 1 \in Nat \ {0}
      BY <1>1, <1>3 DEF TypeInv
    <2> QED BY <1>1, <1>2, <2>1 DEF TypeInv
  <1>5. ObjectsInv'
    <2>1. \A o \in Objects : objects[o].certified \in Nat
      BY <1>1 DEF TypeInv, Tables, Records
    <2> QED BY <1>1, <1>2, <1>3, <2>1 DEF ObjectsInv, IsObject
  <1>6. TrackedInv'
    BY <1>1, <1>2, <1>3 DEF TrackedInv
  <1>7. \A o \in Objects : objects[o] # NoObject => EndOf(objects[o], pools) \in Nat
    BY <1>1 DEF EndOf, ObjectsInv, IsObject, Records, TypeInv
  <1>8. LiveObjects' \subseteq LiveObjects
    <2>1. NoObject.status # "live"
      BY DEF NoObject
    <2> QED BY <1>2, <1>3, <1>7, <2>1 DEF LiveObjects
  <1>9. LiveCertified' \subseteq LiveCertified
    BY <1>2, <1>8 DEF LiveCertified
  <1>10. UntrackedInv'
    BY <1>1, <1>2, <1>8 DEF UntrackedInv
  <1>11. PoolsInv'
    BY <1>1, <1>2, <1>3 DEF PoolsInv, TypeInv
  <1>12. CollectedInv'
    <2>1. gc' = "idle" => \A o \in Objects : table[o] = NoEntry
      BY <1>1, <1>2, <1>3 DEF TrackedInv
    <2> QED BY <1>2, <2>1 DEF CollectedInv, Expired
  <1>13. TxnInv'
    <2>1. txn.by # "worker" /\ txn.by \in {"none", "task", "worker"}
      BY <1>1, <1>2 DEF TxnInv, TypeInv
    <2>2. txn.by = "task" => epoch >= epochAtStart
      BY <1>1 DEF TxnInv
    <2>3. txn.does # "nothing" => LiveObjects = {} \/ info.version = "Invalid"
      BY <1>1, <1>3, <2>1, <2>2 DEF TxnInv
    <2> QED BY <1>1, <1>2, <1>3, <1>8, <2>1, <2>2, <2>3 DEF TxnInv
  <1>14. InitialStep
    <2>1. info.initial \in Nat
      BY <1>1, FieldTypes DEF Matches
    <2> QED BY <1>1, <1>2, <1>3, <1>9, <2>1 DEF InitialStep, SinceInv
  <1>15. LiveDataStep
    BY <1>2 DEF LiveDataStep
  <1>16. Matches(info, table)'
    BY <1>1, <1>2
  <1> QED
    BY <1>4, <1>5, <1>6, <1>10, <1>11, <1>12, <1>13, <1>14, <1>15, <1>16 DEF GoodStep, TablesInv

LEMMA ExpiredPoolsStep ==
  ASSUME IInv, UNCHANGED epochAtStart, ProcessExpiredStoragePools
  PROVE  GoodStep
  <1>1. /\ TablesInv /\ SinceInv /\ TypeInv /\ CollectedInv /\ TxnInv /\ Matches(info, table)
        /\ ObjectsInv /\ TrackedInv /\ UntrackedInv /\ PoolsInv
    BY DEF IInv, TablesInv
  <1>2. /\ UNCHANGED <<epoch, objects, pools, info, table, handled>>
        /\ UNCHANGED <<replay, task, txn, deletions, metadata>> /\ gc' = "regular"
        /\ poolTable' = [p \in Pools |-> IF poolTable[p] <= epoch THEN 0 ELSE poolTable[p]]
    BY DEF ProcessExpiredStoragePools, chain
  <1>3. TypeInv'
    BY <1>1, <1>2 DEF TypeInv
  <1>4. ObjectsInv' /\ TrackedInv'
    BY <1>1, <1>2 DEF ObjectsInv, IsObject, TrackedInv, FirstCompleteEpoch
  <1>5. LiveObjects' = LiveObjects /\ LiveCertified' = LiveCertified
    BY <1>2 DEF LiveObjects, LiveCertified
  <1>6. UntrackedInv'
    BY <1>1, <1>2, <1>5 DEF UntrackedInv
  <1>7. PoolsInv'
    <2> SUFFICES ASSUME NEW p \in Pools
                 PROVE  /\ poolTable'[p] <= pools'[p]
                        /\ pools'[p] > epoch' => poolTable'[p] = pools'[p]
      BY DEF PoolsInv
    <2>1. /\ poolTable[p] \in Nat /\ pools[p] \in Nat /\ epoch \in Nat
          /\ poolTable[p] <= pools[p] /\ (pools[p] > epoch => poolTable[p] = pools[p])
      BY <1>1 DEF PoolsInv, TypeInv
    <2>2. poolTable'[p] = IF poolTable[p] <= epoch THEN 0 ELSE poolTable[p]
      BY <1>2
    <2> QED BY <1>2, <2>1, <2>2
  <1>8. CollectedInv'
    BY <1>2 DEF CollectedInv
  <1>9. TxnInv'
    BY <1>1, <1>2, <1>5 DEF TxnInv
  <1>10. InitialStep
    BY <1>1, <1>2, <1>5 DEF InitialStep, SinceInv
  <1>11. LiveDataStep
    BY <1>2 DEF LiveDataStep
  <1>12. Matches(info, table)'
    BY <1>1, <1>2
  <1> QED
    BY <1>3, <1>4, <1>6, <1>7, <1>8, <1>9, <1>10, <1>11, <1>12 DEF GoodStep, TablesInv

LEMMA ExpiredObjectStep ==
  ASSUME IInv, UNCHANGED epochAtStart, NEW o \in Objects, ProcessMaybeExpiredBlobObject(o)
  PROVE  GoodStep
  <1>1. /\ TablesInv /\ SinceInv /\ TypeInv /\ CollectedInv /\ TxnInv /\ Matches(info, table)
        /\ ObjectsInv /\ TrackedInv /\ UntrackedInv /\ PoolsInv
    BY DEF IInv, TablesInv
  <1>2. PICK op : op = [type |-> "Expired", kind |-> table[o].kind,
                        wasCertified |-> table[o].certified > 0]
    OBVIOUS
  <1>3. /\ UNCHANGED <<epoch, objects, pools, poolTable, handled>>
        /\ UNCHANGED <<replay, gc, task, deletions, metadata>>
        /\ Expired(table[o]) /\ gc = Phase(table[o])
        /\ table' = [table EXCEPT ![o] = NoEntry]
        /\ info' = Merge(info, op)
        /\ txn' = [txn EXCEPT !.does = "nothing"]
    BY <1>2 DEF ProcessMaybeExpiredBlobObject, ExpiredObjects, chain, TouchInfo
  <1>4. /\ table[o] # NoEntry /\ table[o] = objects[o] /\ IsObject(objects[o])
        /\ EndOf(objects[o], poolTable) <= epoch
    BY <1>1, <1>3, EntriesAreObjects DEF Expired
  <1>5. o \notin LiveObjects
    <2>1. EndOf(objects[o], pools) <= epoch
      <3>1. CASE objects[o].kind = "pooled"
        <4>1. objects[o].pool \in Pools
          BY <1>4, <3>1 DEF IsObject
        <4>2. /\ poolTable[objects[o].pool] \in Nat /\ pools[objects[o].pool] \in Nat
              /\ epoch \in Nat
              /\ pools[objects[o].pool] > epoch => poolTable[objects[o].pool] = pools[objects[o].pool]
          BY <1>1, <4>1 DEF TypeInv, PoolsInv
        <4> QED BY <1>4, <3>1, <4>2 DEF EndOf
      <3>2. CASE objects[o].kind # "pooled"
        BY <1>4, <3>2 DEF EndOf
      <3> QED BY <3>1, <3>2
    <2>2. EndOf(objects[o], pools) \in Nat /\ epoch \in Nat
      BY <1>1, <1>4 DEF EndOf, IsObject, Records, TypeInv
    <2> QED BY <2>1, <2>2 DEF LiveObjects
  <1>6. Updated(table, table', o, NoEntry)
    <2>1. table \in Tables /\ NoEntry \in Records
      BY <1>1 DEF TypeInv, NoEntry, NoObject, Records
    <2> QED BY <1>3, <2>1, TableUpdate
  <1>7. /\ table' \in Tables /\ table'[o] = NoEntry
        /\ \A y \in Objects \ {o} : table'[y] = table[y]
    BY <1>6 DEF Updated
  <1>8. /\ Matches(info', table')
        /\ info.version = "Invalid" => info' = info
        /\ info.version # "Invalid" =>
             /\ Valid(info) /\ Valid(info')
             /\ info'.initial = IF AnyCertified(table') THEN info.initial ELSE 0
    <2>1. \A y \in Objects : table[y] # NoEntry => table[y].kind \in ObjectKinds
      BY <1>1, EntriesAreObjects
    <2>2. /\ op.type \in {"Delete", "Expired"} /\ op.kind = table[o].kind
          /\ op.wasCertified = (table[o].certified > 0)
      BY <1>2
    <2> QED BY <1>1, <1>3, <1>4, <1>6, <2>1, <2>2, RemoveMatches
  <1>9. txn \in [by : {"none", "task", "worker"}, does : {"nothing", "data", "both"}]
    BY <1>1 DEF TypeInv
  <1>10. TypeInv'
    BY <1>1, <1>3, <1>7, <1>9 DEF TypeInv
  <1>11. ObjectsInv' /\ TrackedInv'
    BY <1>1, <1>3, <1>7 DEF ObjectsInv, IsObject, TrackedInv, FirstCompleteEpoch
  <1>12. LiveObjects' = LiveObjects /\ LiveCertified' = LiveCertified
    BY <1>3 DEF LiveObjects, LiveCertified
  <1>13. UntrackedInv'
    <2>1. \A y \in LiveObjects : y \in Objects \ {o}
      BY <1>5 DEF LiveObjects
    <2> QED BY <1>1, <1>3, <1>7, <1>12, <2>1 DEF UntrackedInv
  <1>14. PoolsInv'
    BY <1>1, <1>3 DEF PoolsInv
  <1>15. CollectedInv'
    <2>1. gc # "idle"
      BY <1>3 DEF Phase
    <2> QED BY <1>1, <1>3, <1>7, <2>1 DEF CollectedInv, Expired, EndOf, Phase
  <1>16. TxnInv'
    BY <1>1, <1>3, <1>9 DEF TxnInv
  <1>17. InitialStep
    <2>1. info.initial <= epoch /\ epoch \in Nat
      BY <1>1 DEF SinceInv, TypeInv
    <2>2. info'.initial \in {0, info.initial}
      BY <1>8
    <2>3. ASSUME LiveCertified # {}, epochAtStart = 0
          PROVE  AnyCertified(table')
      <3>1. PICK y \in LiveObjects : objects[y].certified > 0
        BY <2>3 DEF LiveCertified
      <3>2. epoch >= epochAtStart
        BY <2>1, <2>3
      <3>3. y \in Objects /\ table[y] = objects[y] /\ table[y] # NoEntry
        BY <1>1, <3>1, <3>2, LiveIsTracked
      <3>4. table'[y] = table[y]
        BY <1>5, <1>7, <3>1, <3>3
      <3> QED BY <3>1, <3>3, <3>4 DEF AnyCertified
    <2>4. info'.version # "Invalid" => info.version # "Invalid"
      BY <1>8
    <2> QED BY <1>3, <1>8, <1>12, <2>1, <2>2, <2>3, <2>4 DEF InitialStep
  <1>18. LiveDataStep
    BY <1>3 DEF LiveDataStep
  <1>19. Matches(info, table)'
    BY <1>8
  <1> QED
    BY <1>10, <1>11, <1>13, <1>14, <1>15, <1>16, <1>17, <1>18, <1>19 DEF GoodStep, TablesInv

(* An event about an object leaves the other objects as they are.          *)
LEMMA OtherObjects ==
  ASSUME NEW o \in Objects, ObjectEvent(o), NEW y \in Objects, y # o
  PROVE  /\ y \in LiveObjects' <=> y \in LiveObjects
         /\ y \in LiveCertified' <=> y \in LiveCertified
  <1>1. objects'[y] = objects[y] /\ UNCHANGED <<epoch, pools>>
    BY DEF ObjectEvent, Updated
  <1>2. y \in LiveObjects' <=> y \in LiveObjects
    BY <1>1 DEF LiveObjects, EndOf
  <1> QED BY <1>1, <1>2 DEF LiveCertified

(* What is left to show of an event about an object.                       *)
LEMMA ObjectEventStep ==
  ASSUME IInv, NEW o \in Objects, ObjectEvent(o), InitialStep
  PROVE  GoodStep
  <1>1. TablesInv' /\ CollectedInv' /\ TxnInv'
    BY ObjectEventInv DEF IInv
  <1>2. LiveDataStep
    BY DEF ObjectEvent, LiveDataStep
  <1> QED BY <1>1, <1>2 DEF GoodStep

(* An event after which the aggregate has the same initial epoch and the   *)
(* same objects are certified.                                             *)
LEMMA InitialIsKept ==
  ASSUME TypeInv, SinceInv, UNCHANGED epoch, InitialKept,
         epochAtStart = 0 => LiveCertified' = LiveCertified
  PROVE  InitialStep
  <1>1. info.initial <= epoch /\ epoch \in Nat /\ info'.initial \in {0, info.initial}
    BY DEF TypeInv, SinceInv, InitialKept
  <1>2. info'.initial <= epoch'
    BY <1>1
  <1> QED BY <1>2 DEF InitialStep, InitialKept

(* A registration is no certification.                                     *)
LEMMA RegisterStep ==
  ASSUME IInv, UNCHANGED <<epochAtStart, pools, deletions>>, NEW o \in Objects, NEW obj,
         IsObject(obj), obj.status = "live", obj.certified = 0, EndOf(obj, pools) > epoch,
         obj.kind # "pooled" => obj.end \in Ends,
         objects[o].status = "new", objects' = [objects EXCEPT ![o] = obj],
         Read(BlobEvent("Register", o, obj))
  PROVE  GoodStep
  <1>1. TablesInv /\ SinceInv /\ TypeInv /\ CollectedInv /\ TxnInv
    BY DEF IInv, TablesInv
  <1>2. ObjectEvent(o) /\ objects'[o] = obj /\ InitialKept
    BY <1>1, RegisterEffect
  <1>3. LiveCertified' = LiveCertified
    <2>1. o \notin LiveCertified /\ o \notin LiveCertified'
      BY <1>2 DEF LiveCertified, LiveObjects
    <2>2. LiveCertified \subseteq Objects /\ LiveCertified' \subseteq Objects
      BY DEF LiveCertified, LiveObjects
    <2> QED BY <1>2, <2>1, <2>2, OtherObjects
  <1>4. UNCHANGED epoch
    BY <1>2 DEF ObjectEvent
  <1>5. InitialStep
    BY <1>1, <1>2, <1>3, <1>4, InitialIsKept
  <1> QED BY <1>2, <1>5, ObjectEventStep

LEMMA RegisterRegularStep ==
  ASSUME IInv, UNCHANGED epochAtStart, NEW o \in Objects, NEW k \in Kinds, NEW end \in Ends,
         Register(o, k, end)
  PROVE  GoodStep
  <1>1. TypeInv
    BY DEF IInv, TablesInv
  <1>2. PICK obj : obj = [status |-> "live", kind |-> k, pool |-> "none", end |-> end,
                          certified |-> 0]
    OBVIOUS
  <1>3. end \in Nat /\ end > epoch /\ epoch \in Nat
    BY <1>1, StartEpochs
  <1>4. /\ k \in ObjectKinds /\ k # "pooled" /\ UNCHANGED <<pools, deletions>>
        /\ objects[o].status = "new" /\ objects' = [objects EXCEPT ![o] = obj]
        /\ Read(BlobEvent("Register", o, obj))
    BY <1>2, KindsAssumption DEF Register, ObjectKinds
  <1>5. obj \in Records
    BY <1>2, <1>3, <1>4 DEF Records
  <1>6. /\ IsObject(obj) /\ obj.status = "live" /\ obj.certified = 0 /\ obj.end \in Ends
        /\ EndOf(obj, pools) > epoch
    BY <1>2, <1>3, <1>4, <1>5 DEF IsObject, EndOf
  <1> QED BY <1>4, <1>6, RegisterStep

LEMMA RegisterPooledStep ==
  ASSUME IInv, UNCHANGED epochAtStart, epochAtStart = 0, NEW o \in Objects, NEW p \in Pools,
         RegisterPooled(o, p)
  PROVE  GoodStep
  <1>1. TypeInv
    BY DEF IInv, TablesInv
  <1>2. PICK obj : obj = [status |-> "live", kind |-> "pooled", pool |-> p, end |-> 0,
                          certified |-> 0]
    OBVIOUS
  <1>3. /\ pools[p] > epoch /\ UNCHANGED <<pools, deletions>>
        /\ objects[o].status = "new" /\ objects' = [objects EXCEPT ![o] = obj]
        /\ Read(BlobEvent("Register", o, obj))
    BY <1>2 DEF RegisterPooled
  <1>4. epoch \in Nat /\ pools[p] \in Nat
    BY <1>1 DEF TypeInv
  <1>5. obj \in Records
    BY <1>2 DEF Records, ObjectKinds
  <1>6. obj.kind = "pooled" /\ obj.pool = p /\ obj.certified = 0 /\ obj.status = "live"
    BY <1>2
  <1>7. IsObject(obj) /\ EndOf(obj, pools) > epoch
    BY <1>3, <1>4, <1>5, <1>6 DEF IsObject, EndOf, ObjectKinds
  <1> QED BY <1>3, <1>6, <1>7, RegisterStep

(* A certification sets the initial epoch only if no other object is certified. *)
LEMMA CertifyStep ==
  ASSUME IInv, UNCHANGED epochAtStart, NEW o \in Objects, Certify(o)
  PROVE  GoodStep
  <1>1. /\ TablesInv /\ SinceInv /\ TypeInv /\ CollectedInv /\ epoch \in Nat
        /\ info.initial <= epoch
    BY DEF IInv, TablesInv, TypeInv, SinceInv
  <1>2. ObjectEvent(o) /\ gc = "idle" /\ UNCHANGED epoch
    BY <1>1, CertifyEffect DEF ObjectEvent
  <1>3. CASE UNCHANGED info /\ (epochAtStart > 0 \/ info.version = "Invalid")
    <2>1. info'.initial <= epoch'
      BY <1>1, <1>2, <1>3
    <2> QED BY <1>2, <1>3, <2>1, ObjectEventStep DEF InitialStep
  <1>4. CASE /\ Valid(info) /\ Valid(info')
             /\ \E v \in Infos : \E op :
                  /\ Valid(v) /\ Agrees(v, table) /\ v.initial = info.initial
                  /\ op.epoch = epoch /\ info'.initial = InitialCertified(v, op)
    <2>1. PICK v \in Infos : \E op :
                  /\ Valid(v) /\ Agrees(v, table) /\ v.initial = info.initial
                  /\ op.epoch = epoch /\ info'.initial = InitialCertified(v, op)
      BY <1>4
    <2>2. /\ Valid(v) /\ Agrees(v, table) /\ v.initial = info.initial
          /\ info'.initial = IF ~IsCertified(v, epoch) \/ v.initial = 0 \/ v.initial > epoch
                             THEN epoch ELSE v.initial
      BY <2>1 DEF InitialCertified
    <2>3. v.initial \in Nat /\ v.initial <= epoch
      BY <1>1, <2>1, <2>2, FieldTypes
    <2>4. info'.initial <= epoch'
      BY <1>1, <1>2, <2>2, <2>3
    <2>5. ASSUME LiveCertified # {}, epochAtStart = 0
          PROVE  info'.initial = info.initial
      <3>1. epoch >= epochAtStart
        BY <1>1, <2>5
      <3>2. IsCertified(v, epoch)
        BY <1>1, <2>2, <2>3, <2>5, <3>1, LiveIsCertified
      <3>3. v.initial \in 1 .. epoch
        BY <3>2 DEF IsCertified
      <3> QED BY <1>1, <2>2, <2>3, <3>2, <3>3
    <2>6. ASSUME LiveCertified = {}
          PROVE  info'.initial = epoch
      <3>1. ~ IsCertified(v, epoch)
        BY <1>1, <1>2, <2>2, <2>6, CertifiedIsLive
      <3> QED BY <2>2, <3>1
    <2>7. info.version # "Invalid"
      BY <1>4 DEF Valid
    <2>8. InitialStep
      BY <1>2, <2>4, <2>5, <2>6, <2>7 DEF InitialStep
    <2> QED BY <1>2, <2>8, ObjectEventStep
  <1> QED BY <1>1, <1>3, <1>4, CertifyEffect

(* An extension keeps an object certified.                                 *)
LEMMA ExtendStep ==
  ASSUME IInv, UNCHANGED epochAtStart, NEW o \in Objects, NEW end \in Ends, Extend(o, end)
  PROVE  GoodStep
  <1>1. TablesInv /\ SinceInv /\ TypeInv /\ info.initial <= epoch /\ epoch \in Nat
    BY DEF IInv, TablesInv, SinceInv, TypeInv
  <1>2. /\ ObjectEvent(o) /\ o \in LiveCertified /\ info'.initial <= epoch
        /\ epochAtStart = 0 => InitialKept
    BY <1>1, ExtendEffect
  <1>3. LiveCertified # {} /\ UNCHANGED epoch
    BY <1>2 DEF ObjectEvent
  <1>4. InitialStep
    BY <1>2, <1>3 DEF InitialStep, InitialKept
  <1> QED BY <1>2, <1>4, ObjectEventStep

(* A deletion keeps the initial epoch as long as another object is certified. *)
LEMMA DeleteStep ==
  ASSUME IInv, UNCHANGED epochAtStart, NEW o \in Objects, Delete(o)
  PROVE  GoodStep
  <1>1. TablesInv /\ SinceInv /\ TypeInv /\ info.initial <= epoch /\ epoch \in Nat
    BY DEF IInv, TablesInv, SinceInv, TypeInv
  <1>2. /\ ObjectEvent(o) /\ o \in LiveObjects
        /\ objects'[o] = [objects[o] EXCEPT !.status = "gone"]
        /\ \/ UNCHANGED info
           \/ /\ Valid(info) /\ Valid(info')
              /\ info'.initial = IF AnyCertified(table') THEN info.initial ELSE 0
    BY <1>1, DeleteEffect
  <1>3. UNCHANGED epoch /\ info'.initial \in {0, info.initial}
    BY <1>2 DEF ObjectEvent
  <1>4. info'.initial <= epoch'
    BY <1>1, <1>3
  <1>5. ASSUME LiveCertified' # {}
        PROVE  LiveCertified # {} /\ (epochAtStart = 0 => AnyCertified(table'))
    <2>1. PICK y \in Objects : y \in LiveCertified'
      BY <1>5 DEF LiveCertified, LiveObjects
    <2>2. y # o
      <3>1. objects'[o].status = "gone"
        <4>1. objects[o] \in Records
          BY <1>1 DEF TypeInv, Tables
        <4> QED BY <1>2, <4>1 DEF Records
      <3> QED BY <2>1, <3>1 DEF LiveCertified, LiveObjects
    <2>3. y \in LiveCertified
      BY <1>2, <2>1, <2>2, OtherObjects
    <2>4. y \in LiveObjects /\ objects[y].certified > 0
      BY <2>3 DEF LiveCertified
    <2>5. ASSUME epochAtStart = 0 PROVE AnyCertified(table')
      <3>1. epoch >= epochAtStart
        BY <1>1, <2>5
      <3>2. table[y] = objects[y] /\ table[y] # NoEntry
        BY <1>1, <2>4, <3>1, LiveIsTracked
      <3>3. table'[y] = table[y]
        BY <1>2, <2>1, <2>2 DEF ObjectEvent, SkippedEvent, HandledEvent, Updated
      <3>4. table'[y] # NoEntry /\ table'[y].certified > 0
        BY <2>4, <3>2, <3>3
      <3> QED BY <2>1, <3>4 DEF AnyCertified
    <2> QED BY <2>3, <2>5
  <1>6. info'.version # "Invalid" => info.version # "Invalid"
    BY <1>2 DEF Valid
  <1>7. InitialStep
    BY <1>2, <1>4, <1>5, <1>6 DEF InitialStep
  <1> QED BY <1>2, <1>7, ObjectEventStep

LEMMA PoolEventStep ==
  ASSUME IInv, UNCHANGED epochAtStart, epochAtStart = 0, NEW p \in Pools, NEW end \in Ends,
         CreatePool(p, end) \/ ExtendPool(p, end)
  PROVE  GoodStep
  <1>1. /\ TablesInv' /\ CollectedInv' /\ TxnInv'
        /\ UNCHANGED <<epoch, info, metadata>> /\ LiveCertified' = LiveCertified
    BY PoolEventInv DEF IInv
  <1>2. InitialStep
    BY <1>1, InitialIsKept DEF IInv, TablesInv, InitialKept
  <1>3. LiveDataStep
    BY <1>1 DEF LiveDataStep
  <1> QED BY <1>1, <1>2, <1>3 DEF GoodStep

(* Every action of the node.                                               *)
LEMMA EveryStep ==
  ASSUME IInv, UNCHANGED epochAtStart, Step
  PROVE  GoodStep
  <1>1. CASE \E o \in Objects, end \in Ends :
               \/ \E k \in Kinds : Register(o, k, end)
               \/ Extend(o, end)
    BY <1>1, RegisterRegularStep, ExtendStep
  <1>2. CASE \E o \in Objects : Certify(o) \/ Delete(o) \/ ProcessMaybeExpiredBlobObject(o)
    BY <1>2, CertifyStep, DeleteStep, ExpiredObjectStep
  <1>3. CASE epochAtStart = 0 /\ PoolStep
    BY <1>3, RegisterPooledStep, PoolEventStep DEF PoolStep
  <1>4. CASE Invalidate \/ Replay \/ Crash
    BY <1>4, InvalidateStep, ReplayStep, CrashStep
  <1>5. CASE EpochChangeStart \/ ProcessExpiredStoragePools \/ FinishTable
    BY <1>5, EpochChangeStep, ExpiredPoolsStep, FinishTableStep
  <1>6. CASE DeleteExpiredBlobData \/ AttemptToDeleteBlobData \/ KeepBlobData \/ CommitDeletion
    BY <1>6, BeginDeletionStep, KeepBlobDataStep, CommitDeletionStep
  <1>7. CASE StoreMetadata \/ PutMetadata \/ DeleteInvalidBlobData
    BY <1>7, MetadataStep, PutMetadataStep
  <1> QED BY <1>1, <1>2, <1>3, <1>4, <1>5, <1>6, <1>7 DEF Step

-----------------------------------------------------------------------------
(* The theorems *)

(* The history variable follows the initial certified epoch.               *)
LEMMA SinceStep ==
  ASSUME SinceInv, TypeInv', UNCHANGED epochAtStart, TrackCertification, InitialStep
  PROVE  SinceInv'
  <1>1. epoch' \in Nat \ {0} /\ since \in Nat /\ (since > 0 <=> LiveCertified # {})
    BY DEF TypeInv, SinceInv
  <1>2. since' = IF LiveCertified' = {} THEN 0 ELSE IF since = 0 THEN epoch' ELSE since
    BY DEF TrackCertification
  <1>3. since' \in Nat /\ (since' > 0 <=> LiveCertified' # {})
    BY <1>1, <1>2
  <1>4. info'.initial <= epoch'
    BY DEF InitialStep
  <1>5. ASSUME since' > 0, info'.version # "Invalid", epochAtStart' = 0
        PROVE  info'.initial = since'
    <2>1. /\ LiveCertified' # {} /\ info.version # "Invalid" /\ epochAtStart = 0
          /\ LiveCertified # {} => info'.initial = info.initial
          /\ LiveCertified = {} => info'.initial = epoch'
      BY <1>3, <1>5 DEF InitialStep
    <2>2. CASE since = 0
      <3>1. LiveCertified = {}
        BY <1>1, <2>2
      <3> QED BY <1>2, <2>1, <2>2, <3>1
    <2>3. CASE since # 0
      <3>1. since > 0 /\ LiveCertified # {}
        BY <1>1, <2>3
      <3>2. info.initial = since
        BY <2>1, <3>1 DEF SinceInv
      <3> QED BY <1>2, <2>1, <2>3, <3>1, <3>2
    <2> QED BY <2>2, <2>3
  <1> QED BY <1>3, <1>4, <1>5 DEF SinceInv

LEMMA InitIInv == ASSUME Init PROVE IInv
  <1>1. \A o \in Objects : objects[o] = NoObject /\ table[o] = NoEntry
    BY DEF Init
  <1>2. LiveObjects = {} /\ LiveCertified = {}
    BY <1>1 DEF LiveObjects, LiveCertified, NoObject
  <1>3. TypeInv
    <2>1. NoObject \in Records
      BY DEF NoObject, Records
    <2>2. objects \in Tables /\ table \in Tables
      BY <2>1 DEF Init, Tables, NoEntry
    <2>3. txn \in [by : {"none", "task", "worker"}, does : {"nothing", "data", "both"}]
      BY DEF Init, NoTxn
    <2>4. /\ epoch = 1 /\ task = 0 /\ deletions = 0 /\ handled = 0 /\ replay = FALSE
          /\ gc = "idle" /\ epochAtStart \in EpochsAtStart
          /\ pools \in [Pools -> Nat] /\ poolTable \in [Pools -> Nat]
      BY DEF Init
    <2> QED BY <2>2, <2>3, <2>4 DEF TypeInv
  <1>4. ObjectsInv /\ TrackedInv /\ UntrackedInv
    BY <1>1, <1>2 DEF ObjectsInv, TrackedInv, UntrackedInv
  <1>5. PoolsInv
    BY DEF Init, PoolsInv
  <1>6. Matches(info, table)
    <2>1. table \in Tables /\ info = NoInfo
      BY <1>3 DEF TypeInv, Init
    <2>2. \A k : /\ \A o \in Objects : ~ IsEntry(table[o], k) /\ ~ IsCertifiedEntry(table[o], k)
                 /\ EntriesOf(table, k) = {} /\ CertifiedOf(table, k) = {}
      BY <1>1 DEF IsEntry, IsCertifiedEntry, EntriesOf, CertifiedOf
    <2>3. \A k : NumEntries(table, k) = 0 /\ NumCertified(table, k) = 0
      BY <2>1, <2>2, EntriesCount
    <2>4. /\ NoInfo.version = "None" /\ NoInfo.initial = 0
          /\ NoInfo.deletable = 0 /\ NoInfo.deletableCertified = 0
          /\ NoInfo.permanent.count = 0 /\ NoInfo.permanentCertified.count = 0
          /\ NoInfo.permanent.end = 0 /\ NoInfo.permanentCertified.end = 0
          /\ NoInfo.pooled = 0 /\ NoInfo.pooledCertified = 0
      BY DEF NoInfo, Default, NoPermanent
    <2>5. ~ AnyCertified(table)
      BY <1>1 DEF AnyCertified
    <2>6. CountsMatch(NoInfo, table)
      BY <2>3, <2>4 DEF CountsMatch
    <2>7. EndsOfPermanent(NoInfo, table) /\ EndsOfDeletable(NoInfo, table)
      BY <2>2, <2>4 DEF EndsOfPermanent, EndsOfDeletable
    <2>8. Agrees(NoInfo, table)
      BY <2>4, <2>5, <2>6, <2>7 DEF Agrees, InitialMatches
    <2>9. NoInfo \in Infos
      BY DEF NoInfo, Default, NoPermanent, Infos, PermanentInfos
    <2> QED BY <2>1, <2>8, <2>9 DEF Matches
  <1>7. CollectedInv
    BY <1>1 DEF CollectedInv, Expired
  <1>8. TxnInv
    BY DEF Init, NoTxn, TxnInv
  <1>9. SinceInv
    <2>1. info.initial = 0 /\ since = 0 /\ epoch = 1
      BY DEF Init, NoInfo, Default
    <2> QED BY <1>2, <2>1 DEF SinceInv
  <1> QED BY <1>3, <1>4, <1>5, <1>6, <1>7, <1>8, <1>9 DEF IInv, TablesInv

LEMMA NextIInv ==
  ASSUME IInv, [Next]_vars
  PROVE  IInv' /\ (LiveDataStep \/ UNCHANGED vars)
  <1>1. CASE Next
    <2>1. GoodStep /\ TrackCertification /\ UNCHANGED epochAtStart
      BY <1>1, EveryStep DEF Next
    <2>2. SinceInv'
      BY <2>1, SinceStep DEF IInv, GoodStep, TablesInv
    <2> QED BY <2>1, <2>2 DEF IInv, GoodStep
  <1>2. CASE UNCHANGED vars
    <2>1. UNCHANGED coreVars /\ UNCHANGED <<handled, replay, gc, task, txn, deletions, metadata, since>>
      BY <1>2 DEF vars, chain, tables, deleting, coreVars
    <2>2. TypeInv' /\ CollectedInv' /\ TxnInv'
      BY <2>1 DEF IInv, TablesInv, coreVars, TypeInv, CollectedInv, Expired, EndOf, Phase, TxnInv,
                  LiveObjects
    <2>3. LiveDataStep
      BY <2>1 DEF LiveDataStep
    <2>4. GoodStep
      BY <2>1, <2>2, <2>3, QuietStep DEF IInv
    <2>5. SinceInv'
      BY <2>1 DEF IInv, SinceInv, coreVars, LiveCertified, LiveObjects
    <2> QED BY <2>4, <2>5 DEF IInv, GoodStep
  <1> QED BY <1>1, <1>2

(* The tables, the aggregate and the transactions stay consistent: the inductive invariant   *)
(* of all operations of blob_info.rs and of the garbage collection.                          *)
THEOREM BlobInfoInvHolds == Spec => []IInv
  <1>1. Init => IInv
    BY InitIInv
  <1>2. IInv /\ [Next]_vars => IInv'
    BY NextIInv
  <1> QED BY <1>1, <1>2, PTL DEF Spec

(* The aggregate counts exactly the entries of the tables of objects, at every point of a    *)
(* garbage collection and of a replay, for any number of objects (the merge functions of     *)
(* ValidBlobInfoV1 and V2, and check_invariants of the tables).                              *)
THEOREM AggregateAlwaysMatches == Spec => []AggregateMatchesTables
  <1>1. ASSUME IInv PROVE AggregateMatchesTables
    <2>1. SUFFICES ASSUME info.version # "Invalid" PROVE AggregateMatchesTables
      BY DEF AggregateMatchesTables
    <2>2. TypeInv /\ Agrees(info, table) /\ ObjectsInv /\ TrackedInv
      BY <1>1, <2>1 DEF IInv, TablesInv, Matches
    <2>3. \A k : Entries({k}) = EntriesOf(table, k) /\ Certified({k}) = CertifiedOf(table, k)
      BY DEF Entries, Certified, EntriesOf, CertifiedOf, IsEntry, IsCertifiedEntry
    <2>4. Certified({"deletable", "permanent", "pooled"}) # {} <=> AnyCertified(table)
      <3>1. \A o \in Objects : table[o] # NoEntry => table[o].kind \in ObjectKinds
        BY <2>2, EntriesAreObjects
      <3> QED BY <3>1 DEF Entries, Certified, AnyCertified, ObjectKinds
    <2>5. /\ info.deletable = Cardinality(Entries({"deletable"}))
          /\ info.deletableCertified = Cardinality(Certified({"deletable"}))
          /\ info.permanent.count = Cardinality(Entries({"permanent"}))
          /\ info.permanentCertified.count = Cardinality(Certified({"permanent"}))
          /\ info.pooled = Cardinality(Entries({"pooled"}))
          /\ info.pooledCertified = Cardinality(Certified({"pooled"}))
      BY <2>2, <2>3 DEF Agrees, CountsMatch, NumEntries, NumCertified
    <2>6. info.initial > 0 <=> Certified({"deletable", "permanent", "pooled"}) # {}
      BY <2>2, <2>4 DEF Agrees, InitialMatches
    <2>7. \A o \in Entries({"permanent"}) : info.permanent.end >= table[o].end
      BY <2>2, <2>3 DEF Agrees, EndsOfPermanent
    <2>8. info.version = "V1" =>
            \A o \in Entries({"deletable"}) : info.latestRegistered >= table[o].end
      BY <2>2, <2>3 DEF Agrees, EndsOfDeletable
    <2> QED BY <2>5, <2>6, <2>7, <2>8 DEF AggregateMatchesTables
  <1> QED BY <1>1, BlobInfoInvHolds, PTL

(* The aggregate says that a blob is registered or certified as long as an object on chain   *)
(* is and, after phase 1 of garbage collection, no longer (is_registered and is_certified),  *)
(* also on a node that started without all of the history.                                   *)
THEOREM StatusAlwaysExact == Spec => []StatusIsExact
  <1>1. ASSUME IInv PROVE StatusIsExact
    <2>1. SUFFICES ASSUME info.version # "Invalid", epoch >= epochAtStart PROVE StatusIsExact
      BY DEF StatusIsExact
    <2>2. /\ TablesInv /\ CollectedInv /\ epoch \in 0 .. epoch /\ info.initial <= epoch
          /\ info \in Infos /\ Agrees(info, table)
      BY <1>1, <2>1 DEF IInv, TablesInv, TypeInv, SinceInv, Matches
    <2>3. ASSUME LiveObjects # {} PROVE IsRegistered(info, epoch)
      BY <2>1, <2>2, <2>3, LiveIsRegistered
    <2>4. ASSUME LiveCertified # {} PROVE IsCertified(info, epoch)
      <3>1. LiveObjects # {}
        BY <2>4 DEF LiveCertified
      <3>2. Valid(info)
        BY <2>3, <3>1 DEF IsRegistered
      <3> QED BY <2>1, <2>2, <2>4, <3>2, LiveIsCertified
    <2>5. ASSUME gc = "idle", IsRegistered(info, epoch) PROVE LiveObjects # {}
      BY <2>2, <2>5, RegisteredIsLive
    <2>6. ASSUME gc = "idle", IsCertified(info, epoch) PROVE LiveCertified # {}
      BY <2>2, <2>6, CertifiedIsLive
    <2> QED BY <2>3, <2>4, <2>5, <2>6 DEF StatusIsExact
  <1> QED BY <1>1, BlobInfoInvHolds, PTL

(* The initial certified epoch of the aggregate is the epoch since which some object has     *)
(* been certified without a gap (update_initial_certified_epoch and what unsets it).         *)
THEOREM InitialEpochAlwaysExact == Spec => []InitialEpochIsExact
  <1>1. ASSUME IInv PROVE InitialEpochIsExact
    <2>1. SUFFICES ASSUME Valid(info), gc = "idle", epochAtStart = 0 PROVE info.initial = since
      BY DEF InitialEpochIsExact
    <2>2. info.version # "Invalid"
      BY <2>1 DEF Valid
    <2>3. /\ TablesInv /\ CollectedInv /\ SinceInv /\ info \in Infos /\ Agrees(info, table)
      BY <1>1, <2>2 DEF IInv, TablesInv, Matches
    <2>4. CASE since > 0
      BY <2>1, <2>2, <2>3, <2>4 DEF SinceInv
    <2>5. CASE ~ (since > 0)
      <3>1. since = 0 /\ LiveCertified = {}
        BY <2>3, <2>5 DEF SinceInv
      <3>2. ~ AnyCertified(table)
        BY <2>1, <2>3, <3>1, TrackedIsLive DEF AnyCertified
      <3>3. ~ (info.initial > 0) /\ info.initial \in Nat
        BY <2>3, <3>2, FieldTypes DEF Agrees, InitialMatches
      <3> QED BY <3>1, <3>3
    <2> QED BY <2>4, <2>5
  <1> QED BY <1>1, BlobInfoInvHolds, PTL

(* No step deletes the data of a blob that an object on chain still registers, although      *)
(* delete_expired_blob_data and the worker of a Deleted event check it before they commit.   *)
THEOREM LiveDataAlwaysKept == Spec => LiveDataIsKept
  <1>1. ASSUME IInv, [Next]_vars PROVE LiveDataStep \/ UNCHANGED vars
    BY <1>1, NextIInv
  <1>2. IInv /\ [Next]_vars =>
          [metadata /\ ~metadata' => \/ LiveObjects' = {}
                                     \/ info.version = "Invalid"
                                     \/ epoch < epochAtStart]_vars
    BY <1>1 DEF LiveDataStep
  <1> QED BY <1>2, BlobInfoInvHolds, PTL DEF Spec, LiveDataIsKept
=============================================================================
