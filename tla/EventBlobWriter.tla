--------------------------- MODULE EventBlobWriter ---------------------------
(***************************************************************************)
(* The event blob writers of honest storage nodes (event_blob_writer.rs)   *)
(* and the contract that certifies what they attest (module EventBlob).    *)
(* Every writer cuts the same stream of events into blobs, attests them    *)
(* one at a time and waits until it reads in the stream that the contract  *)
(* certified the blob.                                                     *)
(*                                                                         *)
(* Of the stream only the elements that matter to a writer are modelled:   *)
(* the end of a blob, EpochChangeStart and the certification of an event   *)
(* blob; all others come in between at any time.  A position counts the    *)
(* elements that were written, a blob is numbered by its place in the      *)
(* stream, which stands for its ending checkpoint, too.  Its ID is the     *)
(* hash of a header and events: events are the same for all writers, so    *)
(* the ID consists of that of the previous blob, the number of the blob    *)
(* for its events and the epoch in the header.  Blobs are cut at           *)
(* checkpoint boundaries, which have no event ID, so that the event ID in  *)
(* the header is always empty.  Blobs have at least two elements; the keys *)
(* of the table of pending blobs are then in the order of blobs, moved     *)
(* back or not, and pending blobs form a set.                              *)
(*                                                                         *)
(* Crashes fall between any two writes to files and tables.                *)
(***************************************************************************)
EXTENDS EventBlob, Sequences

CONSTANTS
  Committee,    \* the shard assignment of every epoch
  Lookups,      \* what a restart may find: "metadata", "blob", "none"
  Threshold,    \* num_uncertified_blob_threshold
  FirstKept,    \* the events of blobs up to here may be gone after a restart
  MaxCrashes,
  MaxFailures   \* bound on failing transactions
CONSTANT StoreFails   \* whether storing slivers may fail

ASSUME CommitteeAssumption == Committee \in [1 .. MaxEpoch -> [Shards -> Nodes]]
ASSUME WriterBoundsAssumption ==
  Threshold \in Nat /\ FirstKept \in Nat /\ MaxCrashes \in Nat /\ MaxFailures \in Nat

VARIABLES
  stream,           \* the events that the contract has emitted
  phase,            \* "down", "idle", "removed", "attest" or "sent"
  starting,         \* no event was written since the node started
  cursor,           \* position of the writer
  current_epoch,    \* epoch of the writer
  header,           \* epoch in the header of the current blob
  prev_certified,   \* prev_certified_blob_id
  paused,           \* pause_attestations
  sent,             \* the blob sent for attestation, and whether that went well
  certified_blob,   \* persisted: the four tables, and the files of blobs
  attested,
  failed_to_attest,
  pending,
  files,
  crashes,
  failures,
  moved,            \* history: the writers that were repositioned
  unaware           \* history: those that started without the metadata of the latest blob

memoryVars == <<starting, cursor, current_epoch, header, prev_certified, paused, sent>>
tableVars == <<certified_blob, attested, failed_to_attest, pending>>
historyVars == <<moved, unaware>>
boundVars == <<crashes, failures, historyVars>>
writerVars == <<vars, stream, phase, memoryVars, tableVars, files, boundVars>>

-----------------------------------------------------------------------------
(* The stream.                                                             *)

BlobEnd == [kind |-> "blob_end"]
EpochChangeStart(e) == [kind |-> "epoch_change_start", epoch |-> e]
BlobCertified(id) == [kind |-> "certified", id |-> id]

\* Positions of ends of blobs; the number of blobs before a position.
Ends == {i \in DOMAIN stream : stream[i] = BlobEnd}
BlobsBefore(i) == Cardinality({j \in Ends : j <= i})
EndOf(num) == IF num = 0 THEN 0 ELSE CHOOSE i \in Ends : BlobsBefore(i) = num

\* The epoch after the elements up to position i.
EpochAt(i) == 1 + Cardinality({j \in 1 .. i : stream[j].kind = "epoch_change_start"})

-----------------------------------------------------------------------------
(* EventBlobMetadata; number 0 stands for an empty table.                  *)

NoBlob == [num |-> 0, header |-> 0, epoch |-> 0, id |-> <<>>]
Blob(num, hdr, e, id) == [num |-> num, header |-> hdr, epoch |-> e, id |-> id]
ToPending(b) == Blob(b.num, b.header, b.epoch, <<>>)

\* The first and the last entry of the table of pending blobs.
Oldest(blobs) == CHOOSE b \in blobs : \A c \in blobs : b.num <= c.num
Newest(blobs) == CHOOSE b \in blobs : \A c \in blobs : c.num <= b.num

NotSent == [blob |-> NoBlob, ok |-> FALSE]

WriterInit ==
  /\ Init
  /\ owner = Committee[1]
  /\ stream = <<>>
  /\ phase = [n \in Nodes |-> "idle"]
  /\ starting = [n \in Nodes |-> FALSE]
  /\ cursor = [n \in Nodes |-> 0]
  /\ current_epoch = [n \in Nodes |-> 1]
  /\ header = [n \in Nodes |-> 1]
  /\ prev_certified = [n \in Nodes |-> <<>>]
  /\ paused = [n \in Nodes |-> FALSE]
  /\ sent = [n \in Nodes |-> NotSent]
  /\ certified_blob = [n \in Nodes |-> NoBlob]
  /\ attested = [n \in Nodes |-> NoBlob]
  /\ failed_to_attest = [n \in Nodes |-> NoBlob]
  /\ pending = [n \in Nodes |-> {}]
  /\ files = [n \in Nodes |-> {}]
  /\ crashes = 0 /\ failures = 0
  /\ moved = {} /\ unaware = {}

\* Enough checkpoints have passed for another blob.
EndBlob ==
  /\ Cardinality(Ends) < MaxCheckpoint
  /\ stream' = Append(stream, BlobEnd)
  /\ UNCHANGED <<vars, phase, memoryVars, tableVars, files, boundVars>>

ChangeEpoch ==
  /\ epoch < MaxEpoch
  /\ AdvanceEpoch(Committee[epoch + 1])
  /\ stream' = Append(stream, EpochChangeStart(epoch + 1))
  /\ UNCHANGED <<phase, memoryVars, tableVars, files, boundVars>>

-----------------------------------------------------------------------------
(* EventBlobWriter::write: one batch, then an attempt to attest.           *)

Reads(n, kind) ==
  /\ phase[n] = "idle"
  /\ cursor[n] < Len(stream)
  /\ stream[cursor[n] + 1].kind = kind

\* The element is written, and the batch with it.
Written(n) ==
  /\ cursor' = [cursor EXCEPT ![n] = @ + 1]
  /\ starting' = [starting EXCEPT ![n] = FALSE]
  /\ phase' = [phase EXCEPT ![n] = "attest"]
  /\ UNCHANGED <<vars, stream, sent, boundVars>>

\* Mutant: the header of the new file is that of the old one.
StaleHeader(n) == header[n]

\* next_file: the epoch in the header of a new file.
NextHeader(n) == current_epoch[n]

\* cut_and_reset_blob.
WriteBlobEnd(n) ==
  LET num == BlobsBefore(cursor[n]) + 1 IN
  /\ Reads(n, "blob_end")
  /\ pending' = [pending EXCEPT
       ![n] = @ \cup {Blob(num, header[n], current_epoch[n], <<>>)}]
  /\ files' = [files EXCEPT ![n] = @ \cup {num}]
  /\ header' = [header EXCEPT ![n] = NextHeader(n)]
  /\ Written(n)
  /\ UNCHANGED <<current_epoch, prev_certified, paused, certified_blob, attested,
                 failed_to_attest>>

\* Mutant: the attested blob is forgotten.
AttestedIsDropped(n) == pending[n]

\* move_attested_blob_to_pending.
WithAttested(n) ==
  IF attested[n] = NoBlob THEN pending[n] ELSE pending[n] \cup {ToPending(attested[n])}

\* update_epoch.
WriteEpochChangeStart(n) ==
  /\ Reads(n, "epoch_change_start")
  /\ current_epoch' = [current_epoch EXCEPT ![n] = stream[cursor[n] + 1].epoch]
  /\ paused' = [paused EXCEPT ![n] = FALSE]
  /\ pending' = [pending EXCEPT ![n] = WithAttested(n)]
  /\ attested' = [attested EXCEPT ![n] = NoBlob]
  /\ Written(n)
  /\ UNCHANGED <<header, prev_certified, certified_blob, failed_to_attest, files>>

\* Mutant: a blob that was attested is not looked at.
OnlyFailed(n) == {failed_to_attest[n]}

\* The tables in which handle_event_blob_certification looks for the blob.
Outstanding(n) == {attested[n], failed_to_attest[n]}

\* Mutant: any certification is taken for that of the outstanding blob.
IsOutstanding(n, b) == b # NoBlob

\* handle_blob_certification: the blob in the event is the one in a table.
IsMatch(n, b) == b # NoBlob /\ b.id = stream[cursor[n] + 1].id

WriteUnmatched(n) ==
  /\ Reads(n, "certified")
  /\ ~ \E b \in Outstanding(n) : IsMatch(n, b)
  /\ Written(n)
  /\ UNCHANGED <<current_epoch, header, prev_certified, paused, tableVars, files>>

\* handle_event_blob_certification removes the file before the batch is written.
RemoveFile(n, b) ==
  /\ Reads(n, "certified")
  /\ b \in Outstanding(n)
  /\ IsMatch(n, b)
  /\ files' = [files EXCEPT ![n] = @ \ {b.num}]
  /\ phase' = [phase EXCEPT ![n] = "removed"]
  /\ UNCHANGED <<vars, stream, memoryVars, tableVars, boundVars>>

WriteCertified(n, b) ==
  /\ phase[n] = "removed"
  /\ b \in Outstanding(n)
  /\ IsMatch(n, b)
  /\ certified_blob' = [certified_blob EXCEPT ![n] = b]
  /\ attested' = [attested EXCEPT ![n] = IF @ = b THEN NoBlob ELSE @]
  /\ failed_to_attest' = [failed_to_attest EXCEPT ![n] = IF @ = b THEN NoBlob ELSE @]
  /\ prev_certified' = [prev_certified EXCEPT ![n] = b.id]
  /\ Written(n)
  /\ UNCHANGED <<current_epoch, header, paused, pending, files>>

Write(n) ==
  \/ WriteBlobEnd(n)
  \/ WriteEpochChangeStart(n)
  \/ WriteUnmatched(n)
  \/ \E b \in Outstanding(n) : RemoveFile(n, b) \/ WriteCertified(n, b)

-----------------------------------------------------------------------------
(* try_attest_next_blob.                                                   *)

\* The blob that is next, if no blob waits for its certification.
NextBlob(n) ==
  CASE attested[n] # NoBlob -> NoBlob
    [] attested[n] = NoBlob /\ failed_to_attest[n] # NoBlob -> failed_to_attest[n]
    [] OTHER ->
         IF pending[n] = {} THEN NoBlob
         ELSE Oldest(pending[n])

\* The header of a pending blob is completed; a failed blob keeps its own.
WithId(n, b) ==
  IF b = failed_to_attest[n] THEN b
  ELSE Blob(b.num, b.header, b.epoch, <<prev_certified[n], b.num, b.header>>)

\* Any other element, which only matters if there is a blob to attest.
WriteOther(n) ==
  /\ phase[n] = "idle"
  /\ NextBlob(n) # NoBlob
  /\ starting' = [starting EXCEPT ![n] = FALSE]
  /\ phase' = [phase EXCEPT ![n] = "attest"]
  /\ UNCHANGED <<vars, stream, cursor, current_epoch, header, prev_certified, paused,
                 sent, tableVars, files, boundVars>>

\* There is nothing to attest, a failed attestation has to wait, or the slivers
\* cannot be stored.
SkipAttestation(n) ==
  /\ phase[n] = "attest"
  /\ \/ NextBlob(n) = NoBlob
     \/ NextBlob(n) # NoBlob /\ NextBlob(n) = failed_to_attest[n]
     \/ NextBlob(n) # NoBlob /\ NextBlob(n).num \notin files[n]
     \/ NextBlob(n) # NoBlob /\ StoreFails
  /\ phase' = [phase EXCEPT ![n] = "idle"]
  /\ UNCHANGED <<vars, stream, memoryVars, tableVars, files, boundVars>>

Sends(n) ==
  /\ phase[n] = "attest"
  /\ NextBlob(n) # NoBlob
  /\ NextBlob(n).num \in files[n]
  /\ phase' = [phase EXCEPT ![n] = "sent"]

IsMember(n, e) == \E s \in Shards : Committee[e][s] = n

\* attest_blob ends well without a transaction that counts: attestations are
\* paused, the node is not in the committee that it knows, or the contract
\* knows better.
AttestInVain(n) ==
  /\ Sends(n)
  /\ sent' = [sent EXCEPT ![n] = [blob |-> NextBlob(n), ok |-> TRUE]]
  /\ \/ /\ paused[n] \/ \E e \in {current_epoch[n], epoch} : ~ IsMember(n, e)
        /\ UNCHANGED paused
     \/ /\ current_epoch[n] # epoch \/ ~ IsMember(n, epoch)
        /\ paused' = [paused EXCEPT ![n] = TRUE]
     \/ /\ current_epoch[n] = epoch
        /\ ~ MayAttest(n, NextBlob(n).num)
        /\ UNCHANGED paused
  /\ UNCHANGED <<vars, stream, starting, cursor, current_epoch, header, prev_certified,
                 tableVars, files, boundVars>>

Fails == failures < MaxFailures /\ failures' = failures + 1

\* The transaction is executed; its response may get lost.
AttestBlob(n, ok) ==
  LET b == WithId(n, NextBlob(n)) IN
  /\ Sends(n)
  /\ ~ paused[n]
  /\ current_epoch[n] = epoch
  /\ CertifyEventBlob(n, [blob_id |-> b.id, ending_checkpoint |-> b.num])
  /\ stream' = IF latest' # latest THEN Append(stream, BlobCertified(b.id)) ELSE stream
  /\ sent' = [sent EXCEPT ![n] = [blob |-> NextBlob(n), ok |-> ok]]
  /\ IF ok THEN UNCHANGED failures ELSE Fails
  /\ UNCHANGED <<starting, cursor, current_epoch, header, prev_certified, paused, tableVars,
                 files, crashes, historyVars>>

\* The transaction is not executed.
FailToAttest(n) ==
  /\ Sends(n)
  /\ ~ paused[n]
  /\ Fails
  /\ sent' = [sent EXCEPT ![n] = [blob |-> NextBlob(n), ok |-> FALSE]]
  /\ UNCHANGED <<vars, stream, starting, cursor, current_epoch, header,
                 prev_certified, paused, tableVars, files, crashes, historyVars>>

\* The batch of attest_pending_blob and attest_failed_to_attest_blob.
RecordAttestation(n) ==
  LET b == WithId(n, sent[n].blob) IN
  /\ phase[n] = "sent"
  /\ attested' = [attested EXCEPT ![n] = IF sent[n].ok THEN b ELSE @]
  /\ failed_to_attest' = [failed_to_attest EXCEPT ![n] = IF sent[n].ok THEN NoBlob ELSE b]
  /\ pending' = [pending EXCEPT ![n] = @ \ {sent[n].blob}]
  /\ phase' = [phase EXCEPT ![n] = "idle"]
  /\ sent' = [sent EXCEPT ![n] = NotSent]
  /\ UNCHANGED <<vars, stream, starting, cursor, current_epoch, header,
                 prev_certified, paused, certified_blob, files, boundVars>>

-----------------------------------------------------------------------------
(* Crashes and restarts.                                                   *)

Crash(n) ==
  /\ phase[n] # "down"
  /\ crashes < MaxCrashes
  /\ crashes' = crashes + 1
  /\ phase' = [phase EXCEPT ![n] = "down"]
  /\ starting' = [starting EXCEPT ![n] = FALSE]
  /\ cursor' = [cursor EXCEPT ![n] = 0]
  /\ current_epoch' = [current_epoch EXCEPT ![n] = 1]
  /\ header' = [header EXCEPT ![n] = 1]
  /\ prev_certified' = [prev_certified EXCEPT ![n] = <<>>]
  /\ paused' = [paused EXCEPT ![n] = FALSE]
  /\ sent' = [sent EXCEPT ![n] = NotSent]
  /\ UNCHANGED <<vars, stream, tableVars, files, failures, historyVars>>

Uncertified(n) == pending[n] \cup ({attested[n], failed_to_attest[n]} \ {NoBlob})

\* handle_event_blob_with_metadata: the latest certified blob on chain is ahead of
\* the local one.
SkipsAhead(n, lookup) == lookup = "metadata" /\ latest > certified_blob[n].num

\* reset_uncertified_blobs: many blobs after the latest certified one and at
\* most one before.
ShouldReset(n) ==
  LET after == {b \in Uncertified(n) : b.num > latest} IN
  /\ Cardinality(after) >= Threshold
  /\ Cardinality(Uncertified(n)) <= Cardinality(after) + 1

\* What EventBlobWriterFactory::new deletes from the tables, knowing the latest
\* certified blob or not.
Cleared(n, lookup) ==
  CASE SkipsAhead(n, lookup) -> Uncertified(n)
    [] ~ SkipsAhead(n, lookup) /\ lookup # "none" /\ latest > 0 /\ ShouldReset(n) ->
         {b \in Uncertified(n) : b.num > latest}
    [] OTHER -> {}

ChainBlob(num) ==
  LET c == CHOOSE c \in certified : c.blob.ending_checkpoint = num IN
  Blob(num, 0, EpochAt(EndOf(num)), c.blob.blob_id)

\* Where the writer resumes: the last blob of the tables in this order.
LastBlob(p, f, a, c) ==
  CASE p # {} -> Newest(p)
    [] p = {} /\ f # NoBlob -> f
    [] p = {} /\ f = NoBlob /\ a # NoBlob -> a
    [] OTHER -> c

Restart(n, lookup) ==
  LET cleared == Cleared(n, lookup)
      Kept(b) == IF b \in cleared THEN NoBlob ELSE b
      p == pending[n] \ cleared
      c == IF SkipsAhead(n, lookup) THEN ChainBlob(latest) ELSE certified_blob[n]
      last == LastBlob(p, Kept(failed_to_attest[n]), Kept(attested[n]), c)
      e == IF last = NoBlob THEN 1 ELSE last.epoch
  IN
  /\ phase[n] = "down"
  /\ lookup \in Lookups
  /\ pending' = [pending EXCEPT ![n] = p]
  /\ attested' = [attested EXCEPT ![n] = Kept(@)]
  /\ failed_to_attest' = [failed_to_attest EXCEPT ![n] = Kept(@)]
  /\ certified_blob' = [certified_blob EXCEPT ![n] = c]
  /\ files' = [files EXCEPT ![n] = @ \cap {b.num : b \in Uncertified(n) \ cleared}]
  /\ cursor' = [cursor EXCEPT ![n] = EndOf(last.num)]
  /\ current_epoch' = [current_epoch EXCEPT ![n] = e]
  /\ header' = [header EXCEPT ![n] = e]
  /\ prev_certified' = [prev_certified EXCEPT ![n] = c.id]
  /\ starting' = [starting EXCEPT ![n] = TRUE]
  /\ phase' = [phase EXCEPT ![n] = "attest"]
  /\ unaware' = IF lookup = "metadata" THEN unaware ELSE unaware \cup {n}
  /\ UNCHANGED <<vars, stream, paused, sent, crashes, failures, moved>>

\* continue_event_stream finds that events are gone up to the end of a certified
\* blob, from where the event blobs were read, and EventBlobWriter::update.
Reposition(n, num) ==
  /\ phase[n] = "idle"
  /\ starting[n]
  /\ num <= latest
  /\ EndOf(num) > cursor[n]
  /\ \E c \in certified : c.blob.ending_checkpoint = num
  /\ cursor' = [cursor EXCEPT ![n] = EndOf(num)]
  /\ current_epoch' = [current_epoch EXCEPT ![n] = EpochAt(EndOf(num))]
  /\ prev_certified' = [prev_certified EXCEPT ![n] = ChainBlob(num).id]
  /\ certified_blob' = [certified_blob EXCEPT ![n] = ChainBlob(num)]
  /\ starting' = [starting EXCEPT ![n] = FALSE]
  /\ moved' = moved \cup {n}
  /\ UNCHANGED <<vars, stream, phase, header, paused, sent, attested,
                 failed_to_attest, pending, files, crashes, failures, unaware>>

Attest(n) ==
  \/ SkipAttestation(n)
  \/ AttestInVain(n)
  \/ \E ok \in BOOLEAN : AttestBlob(n, ok)
  \/ FailToAttest(n)

WriterNext ==
  \/ EndBlob
  \/ ChangeEpoch
  \/ \E n \in Nodes :
       \/ Write(n)
       \/ WriteOther(n)
       \/ Attest(n)
       \/ RecordAttestation(n)
       \/ Crash(n)
       \/ \E lookup \in Lookups : Restart(n, lookup)
       \/ \E num \in 1 .. FirstKept : Reposition(n, num)

WriterSpec == WriterInit /\ [][WriterNext]_writerVars

\* Events go on, and writers are restarted and write them; a failed attestation
\* is retried when its backoff is over.
Fairness ==
  /\ WF_writerVars(EndBlob)
  /\ WF_writerVars(ChangeEpoch)
  /\ \A n \in Nodes :
       /\ SF_writerVars(Write(n))
       /\ WF_writerVars(WriteOther(n))
       /\ WF_writerVars(Attest(n))
       /\ SF_writerVars(AttestInVain(n) \/ AttestBlob(n, TRUE))
       /\ WF_writerVars(RecordAttestation(n))
       /\ WF_writerVars(\E lookup \in Lookups : Restart(n, lookup))

FairSpec == WriterSpec /\ Fairness

-----------------------------------------------------------------------------
(* Properties.                                                             *)

\* Unless it was repositioned, the blobs that a running writer has not seen certified are those
\* after its certified blob, each in one table: neither crashes nor epoch
\* changes nor resets lose a blob, repeat it, or attest one out of order.
NoBlobLost ==
  \A n \in Nodes \ moved : phase[n] # "down" =>
    /\ {b.num : b \in Uncertified(n)} = certified_blob[n].num + 1 .. BlobsBefore(cursor[n])
    /\ Cardinality(Uncertified(n)) = BlobsBefore(cursor[n]) - certified_blob[n].num
    /\ attested[n] = NoBlob \/ failed_to_attest[n] = NoBlob
    /\ \A b \in {attested[n], failed_to_attest[n]} \ {NoBlob} : \A p \in pending[n] : b.num < p.num

\* Honest writers never fork as long as none was repositioned: they attest to the
\* same blob at a checkpoint, also in different epochs, and the contract only
\* certifies such blobs.  A writer that was repositioned goes on with the header
\* of its old file, and forks if the epoch is another one by then (for example with
\* Threshold = 2, MaxCheckpoint = 3 and three of the four shards at n1 in all epochs).
WritersAgree ==
  LET ids == UNION {{b \in Uncertified(n) \cup {certified_blob[n]} : b.id # <<>>} : n \in Nodes} IN
  moved = {} =>
  /\ \A b, c \in ids : b.num = c.num => b.id = c.id
  /\ \A b \in ids, c \in certified : c.blob.ending_checkpoint = b.num => c.blob.blob_id = b.id

\* What a writer takes for certified was certified on chain, even after it was
\* repositioned and attested to blobs that nobody else has.
RecordedAreCertified ==
  \A n \in Nodes : certified_blob[n] # NoBlob =>
    \E c \in certified : c.blob = [blob_id |-> certified_blob[n].id,
                                  ending_checkpoint |-> certified_blob[n].num]

\* "Once a blob is certified by the quorum, its metadata moves to the certified
\* database": in the end every writer has recorded that all blobs are certified.
AllBlobsCertified ==
  <>[](\A n \in Nodes : certified_blob[n].num = MaxCheckpoint)
  \/ <>(moved \cup unaware # {})

\* A blob that is pending can be attested: its file is there.  The writer "removes
\* the file for certified blobs". It does not hold: the file is removed before the
\* certification is recorded, and a crash may fall between the two.
PendingHaveFiles == \A n \in Nodes : phase[n] # "down" => \A b \in pending[n] : b.num \in files[n]
====
