----------------------------- MODULE DemUploads -----------------------------
(***************************************************************************)
(* The chunked upload of the recording of one match                        *)
(* (runtime/core/dem_store.go) with the PostgreSQL store.  Several battle  *)
(* processes may have recorded the match, each with a container of its     *)
(* own; chunks arrive late, repeated and in any order, and the lobby may   *)
(* restart between them, which loses the staging area and keeps the store. *)
(*                                                                         *)
(* The bytes of chunk i of container c are the value c; an assembled body  *)
(* is a function from indices to containers, and a digest names the        *)
(* container whose bytes have it.  An upload may come without a digest.    *)
(***************************************************************************)
EXTENDS Integers, FiniteSets

CONSTANTS
    Containers,     \* what the battle processes upload
    NoContainer,
    Total,          \* [Containers -> chunk_total]
    Size,           \* [Containers -> dem_size], with chunks of size one
    Digest,         \* dem_sha256 as declared, NoContainer when it is left out
    BadHeaders,     \* containers whose header does not parse
    MaxUploadSize,  \* maxDemUploadBytes
    MaxRestarts     \* bound on lobby restarts

ASSUME DemUploadsAssumptions ==
    /\ NoContainer \notin Containers
    /\ Total \in [Containers -> Nat \ {0}]
    /\ Size \in [Containers -> Nat]
    /\ Digest \in [Containers -> Containers \cup {NoContainer}]
    /\ BadHeaders \subseteq Containers
    /\ {MaxUploadSize, MaxRestarts} \subseteq Nat

VARIABLES
    upload,     \* s.demUploads[match]: [of, chunks], of = NoContainer when absent
    stored,     \* the row: [sha, size, chunks], and the digest that was declared
    restarts

demVars == <<upload, stored, restarts>>

NoUpload == [of |-> NoContainer, chunks |-> <<>>]
NoRow == [sha |-> NoContainer, declared |-> NoContainer, size |-> 0, chunks |-> <<>>]
Indices(c) == 0..(Total[c] - 1)
Whole(c) == [i \in Indices(c) |-> c]

(* sha256.Sum256: what is put together from several containers has the      *)
(* digest of none.                                                          *)
Sum256(body) == IF \E c \in Containers : body = Whole(c) THEN body[0] ELSE NoContainer

(* SubmitDemReplayChunk: the declared size is within the limit.             *)
InRange(c) == Size[c] <= MaxUploadSize

(* SubmitDemReplayChunk: GetDemByMatch finds the row, or fails and counts   *)
(* as absent (scanDemRecord).                                               *)
SeesRow(readFails) == stored # NoRow /\ ~readFails

(* SubmitDemReplayChunk: the metadata of the staged upload, which are those *)
(* of the chunk that opened it, agree with this chunk's; a digest that one  *)
(* of them leaves out is not compared.                                      *)
Agrees(c) ==
    upload # NoUpload =>
       /\ Total[upload.of] = Total[c]
       /\ Size[upload.of] = Size[c]
       /\ NoContainer \in {Digest[upload.of], Digest[c]} \/ Digest[upload.of] = Digest[c]
Opener(c) == IF upload = NoUpload THEN c ELSE upload.of
With(c, i) == [j \in DOMAIN upload.chunks \cup {i} |-> IF j = i THEN c ELSE upload.chunks[j]]

(* A chunk that leaves the upload incomplete.                               *)
StageChunk(c, i, readFails) ==
    /\ InRange(c) /\ ~SeesRow(readFails) /\ Agrees(c)
    /\ i \notin DOMAIN upload.chunks
    /\ Cardinality(DOMAIN With(c, i)) \in 1..MaxUploadSize
    /\ Cardinality(DOMAIN With(c, i)) < Total[c]
    /\ upload' = [of |-> Opener(c), chunks |-> With(c, i)]
    /\ UNCHANGED <<stored, restarts>>

(* upload_too_large: more bytes than the limit came in.                     *)
UploadTooLarge(c, i, readFails) ==
    /\ InRange(c) /\ ~SeesRow(readFails) /\ Agrees(c)
    /\ i \notin DOMAIN upload.chunks
    /\ Cardinality(DOMAIN With(c, i)) > MaxUploadSize
    /\ upload' = NoUpload
    /\ UNCHANGED <<stored, restarts>>

(* The checks of an assembled container: the size and the digest as the     *)
(* upload was opened with, if they were given, and the header.              *)
Sound(body, c) ==
    /\ Size[c] # 0 => Cardinality(DOMAIN body) = Size[c]
    /\ Digest[c] # NoContainer => Sum256(body) = Digest[c]
    /\ body[0] \notin BadHeaders

(* SaveDem: ON CONFLICT DO NOTHING.                                         *)
SaveDem(row) == IF stored = NoRow THEN row ELSE stored

(* The chunk that completes the upload.  The staging area is empty whatever *)
(* comes of it; a write may fail.                                           *)
CompleteUpload(c, i, readFails, writeFails) ==
    /\ InRange(c) /\ ~SeesRow(readFails) /\ Agrees(c)
    /\ i \notin DOMAIN upload.chunks
    /\ Cardinality(DOMAIN With(c, i)) <= MaxUploadSize
    /\ Cardinality(DOMAIN With(c, i)) = Total[c]
    /\ upload' = NoUpload
    /\ stored' =
         IF Sound(With(c, i), Opener(c)) /\ ~writeFails
         THEN SaveDem([sha |-> Sum256(With(c, i)), declared |-> Digest[Opener(c)],
                       size |-> Total[c], chunks |-> With(c, i)])
         ELSE stored
    /\ UNCHANGED restarts

(* A new lobby process: Service.demUploads is empty.                        *)
LobbyRestart ==
    /\ restarts < MaxRestarts
    /\ restarts' = restarts + 1
    /\ upload' = NoUpload
    /\ UNCHANGED stored

DemInit ==
    /\ upload = NoUpload
    /\ stored = NoRow
    /\ restarts = 0

DemNext ==
    \/ \E c \in Containers, readFails, writeFails \in BOOLEAN : \E i \in Indices(c) :
          \/ StageChunk(c, i, readFails)
          \/ UploadTooLarge(c, i, readFails)
          \/ CompleteUpload(c, i, readFails, writeFails)
    \/ LobbyRestart

DemSpec == DemInit /\ [][DemNext]_demVars

-----------------------------------------------------------------------------
(* Properties.                                                              *)

DemTypeOK ==
    /\ {upload.of, stored.sha, stored.declared} \subseteq Containers \cup {NoContainer}
    /\ stored.size \in Nat
    /\ \A body \in {upload.chunks, stored.chunks} :
          DOMAIN body \subseteq Nat /\ \A i \in DOMAIN body : body[i] \in Containers
    /\ restarts \in 0..MaxRestarts

(* A stored recording is whole: no chunk is missing, all were sent as       *)
(* chunks of so many, and the header parses.  If the upload was opened with *)
(* a digest, all of it is the container that the digest names, although     *)
(* processes upload different recordings of the match at once; without one  *)
(* nothing tells the chunks of two recordings apart (SubmitDemReplayChunk). *)
StoredWhole ==
    stored # NoRow =>
       /\ DOMAIN stored.chunks = 0..(stored.size - 1)
       /\ \A i \in DOMAIN stored.chunks : Total[stored.chunks[i]] = stored.size
       /\ stored.chunks[0] \notin BadHeaders
       /\ stored.declared # NoContainer => stored.chunks = Whole(stored.declared)
=============================================================================
