----------------------------- MODULE LiveTail -----------------------------
(***************************************************************************)
(* The tailer of a live spool (internal/localapp/tailer.go and the poll in *)
(* runtime.go).  A hook appends records to a file; every process that runs *)
(* the poll imports the complete lines after a cursor and then saves the   *)
(* cursor.  A file is a sequence of units <<line, k>>, a line ends with    *)
(* its last unit.  The digest of a prefix is the prefix itself.            *)
(***************************************************************************)
EXTENDS Naturals, Sequences, FiniteSets

CONSTANTS
    Lines,              \* the records, 1 .. n, in the order the hook writes them
    Size,               \* the number of units of a line
    Tailers,            \* the processes that poll the spool
    PrefixBytes,        \* tailPrefixBytes
    MaxTailBatch, MaxRecordBytes,
    Files,              \* file identities (device, inode), as positive numbers
    MaxSetbacks         \* bound: replacements of the spool and interruptions of a poll

TailAssumption ==
    /\ Lines \subseteq Nat \ {0} /\ Size \in [Lines -> Nat \ {0}]
    /\ Files \subseteq Nat \ {0} /\ 1 \in Files
    /\ PrefixBytes \in Nat \ {0} /\ MaxRecordBytes \in Nat \ {0}
    /\ MaxTailBatch \in Nat /\ MaxTailBatch > MaxRecordBytes
    /\ MaxSetbacks \in Nat

VARIABLES
    files,          \* the content of every file there ever was
    current,        \* the file at the path of the spool
    written,        \* <<line, units>>: what the hook has written of its last line
    cursor,         \* the cursor file
    tailer,         \* what a poll has found so far
    accepted,       \* lines whose record was imported
    quarantined,    \* pieces that were no acceptable record
    torn,           \* files replaced in place while a poll was reading them
    budget          \* troubles still to come

tailVars == <<files, current, written, cursor, tailer, accepted, quarantined, torn, budget>>

NoCursor == [offset |-> 0, file |-> 0, bytes |-> 0, prefix |-> <<>>]
Resting == [step |-> "rest", file |-> 0, size |-> 0, cursor |-> NoCursor,
            body |-> <<>>, end |-> 0]

SmallerOf(a, b) == IF a < b THEN a ELSE b
EndsLine(u) == u[2] = Size[u[1]]
Prefix(file, n) == SubSeq(files[file], 1, SmallerOf(n, Len(files[file])))

TailInit ==
    /\ files = [f \in Files |-> <<>>]
    /\ current = 1
    /\ written = <<0, 0>>
    /\ cursor = NoCursor
    /\ tailer = [t \in Tailers |-> Resting]
    /\ accepted = {} /\ quarantined = {} /\ torn = {}
    /\ budget = MaxSetbacks

-----------------------------------------------------------------------------
(* The hook and the file system. *)

AtLineEnd == written[2] = IF written[1] = 0 THEN 0 ELSE Size[written[1]]

(* The hook appends the next unit: a line may be seen half written. *)
HookAppends ==
    LET next == IF AtLineEnd THEN <<written[1] + 1, 1>> ELSE <<written[1], written[2] + 1>>
    IN  /\ next[1] \in Lines
        /\ files' = [files EXCEPT ![current] = Append(@, next)]
        /\ written' = next
        /\ UNCHANGED <<current, cursor, tailer, accepted, quarantined, torn, budget>>

(* The spool is moved away and a new file takes its place. *)
Rotate ==
    /\ AtLineEnd /\ budget > 0
    /\ current + 1 \in Files
    /\ current' = current + 1
    /\ budget' = budget - 1
    /\ UNCHANGED <<files, written, cursor, tailer, accepted, quarantined, torn>>

(* The spool is truncated and written again, under the same identity. *)
ReplaceInPlace ==
    /\ AtLineEnd /\ budget > 0
    /\ files' = [files EXCEPT ![current] = <<>>]
    /\ torn' = IF \E t \in Tailers : tailer[t].step # "rest" /\ tailer[t].file = current
               THEN torn \cup {current} ELSE torn
    /\ budget' = budget - 1
    /\ UNCHANGED <<current, written, cursor, tailer, accepted, quarantined>>

-----------------------------------------------------------------------------
(* One poll: ImportSpoolOnceAfterCheckpoint. *)

(* openRegularNoFollow: the identity and the size of the file. *)
Open(t) ==
    /\ tailer[t].step = "rest"
    /\ tailer' = [tailer EXCEPT ![t] =
         [Resting EXCEPT !.step = "load", !.file = current, !.size = Len(files[current])]]
    /\ UNCHANGED <<files, current, written, cursor, accepted, quarantined, torn, budget>>

(* The file is not the one, or not as long as, the cursor was saved for. *)
Replaced(file, size) ==
    \/ cursor.offset > size
    \/ cursor.file # 0 /\ cursor.file # file
    \/ cursor.prefix # <<>> /\ cursor.prefix # Prefix(file, cursor.bytes)

(* loadTailCursor and the decision whether to start over. *)
Load(t) ==
    LET reset == Replaced(tailer[t].file, tailer[t].size)
        from == IF reset THEN [cursor EXCEPT !.offset = 0, !.bytes = 0, !.prefix = <<>>]
                         ELSE cursor
    IN  /\ tailer[t].step = "load"
        /\ tailer' = [tailer EXCEPT ![t] =
             IF from.offset = tailer[t].size THEN Resting
             ELSE [@ EXCEPT !.step = "read", !.cursor = from]]
        /\ UNCHANGED <<files, current, written, cursor, accepted, quarantined, torn, budget>>

\* Mutant: the batch ends where the file ends, also in the middle of a line.
CompleteToEnd(body) == Len(body)

(* The units of a batch up to its last newline; without one, all of them if
   they are more than a record may have, and none otherwise. *)
Complete(body) ==
    LET ends == {k \in 1 .. Len(body) : EndsLine(body[k])}
    IN  IF ends # {} THEN CHOOSE k \in ends : \A e \in ends : e <= k
        ELSE IF Len(body) > MaxRecordBytes THEN Len(body) ELSE 0

(* ReadAt: at most a batch, and no more than there is by now. *)
ReadBody(t) ==
    LET from == tailer[t].cursor.offset
        content == files[tailer[t].file]
        to == SmallerOf(SmallerOf(tailer[t].size, from + MaxTailBatch), Len(content))
        body == SubSeq(content, from + 1, to)
        complete == Complete(body)
    IN  /\ tailer[t].step = "read"
        /\ tailer' = [tailer EXCEPT ![t] =
             IF complete = 0 THEN Resting
             ELSE [@ EXCEPT !.step = "import", !.body = SubSeq(body, 1, complete),
                            !.end = from + complete]]
        /\ UNCHANGED <<files, current, written, cursor, accepted, quarantined, torn, budget>>

(* The first piece of a batch: up to a newline, or all that is left. *)
Piece(body) ==
    LET ends == {k \in 1 .. Len(body) : EndsLine(body[k])}
        end == IF ends = {} THEN Len(body) ELSE CHOOSE k \in ends : \A e \in ends : k <= e
    IN  SubSeq(body, 1, end)

Whole(piece) == EndsLine(piece[Len(piece)]) /\ piece[1][2] = 1

(* Importer.Import: the pieces of the batch one by one, each in transactions of
   its own; a piece that is too large or no record is quarantined. *)
ImportPiece(t) ==
    LET piece == Piece(tailer[t].body)
    IN  /\ tailer[t].step = "import" /\ tailer[t].body # <<>>
        /\ IF Whole(piece) /\ Len(piece) <= MaxRecordBytes
           THEN accepted' = accepted \cup {piece[1][1]} /\ UNCHANGED quarantined
           ELSE quarantined' = quarantined \cup {piece[1][1]} /\ UNCHANGED accepted
        /\ tailer' = [tailer EXCEPT ![t].body =
                        SubSeq(@, Len(piece) + 1, Len(@))]
        /\ UNCHANGED <<files, current, written, cursor, torn, budget>>

\* Mutant: the cursor is saved before the batch is imported.
MayCheckpointEarly(t) == tailer[t].step = "import"

MayCheckpoint(t) == tailer[t].step = "import" /\ tailer[t].body = <<>>

(* saveTailCursor, with the prefix the file has now; then the sessions are
   drained (AnalysisQueue). *)
Checkpoint(t) ==
    LET bytes == SmallerOf(PrefixBytes, tailer[t].end)
    IN  /\ MayCheckpoint(t)
        /\ cursor' = [offset |-> tailer[t].end, file |-> tailer[t].file,
                      bytes |-> bytes, prefix |-> Prefix(tailer[t].file, bytes)]
        /\ tailer' = [tailer EXCEPT ![t] = Resting]
        /\ UNCHANGED <<files, current, written, accepted, quarantined, torn, budget>>

(* The process ends, or a transaction of the importer fails: nothing is saved. *)
PollFails(t) ==
    /\ tailer[t].step # "rest"
    /\ budget > 0
    /\ tailer' = [tailer EXCEPT ![t] = Resting]
    /\ budget' = budget - 1
    /\ UNCHANGED <<files, current, written, cursor, accepted, quarantined, torn>>

-----------------------------------------------------------------------------
Poll(t) == Open(t) \/ Load(t) \/ ReadBody(t) \/ ImportPiece(t) \/ Checkpoint(t)

TailNext ==
    \/ HookAppends \/ Rotate \/ ReplaceInPlace
    \/ \E t \in Tailers :
        \/ Open(t) \/ Load(t) \/ ReadBody(t) \/ ImportPiece(t) \/ Checkpoint(t)
        \/ PollFails(t)

(* PollLive polls again every interval; the hook owes nothing. *)
TailFairness == \A t \in Tailers : WF_tailVars(Poll(t))

TailSpec == TailInit /\ [][TailNext]_tailVars /\ TailFairness

-----------------------------------------------------------------------------
(* Properties. *)

TailTypeOK ==
    /\ files \in [Files -> Seq(Lines \X Nat)] /\ current \in Files
    /\ cursor.offset \in Nat /\ cursor.file \in Files \cup {0}
    /\ accepted \subseteq Lines /\ quarantined \subseteq Lines
    /\ \A t \in Tailers : tailer[t].step \in {"rest", "load", "read", "import"}

Dealt(l) == IF Size[l] <= MaxRecordBytes THEN l \in accepted ELSE l \in quarantined

(* Whatever the next poll will skip has been imported: every line that ends   *)
(* before the cursor, when the cursor will be used as it is.  Two processes   *)
(* that poll the same spool may move the cursor back, never too far forward.  *)
(* Files that are replaced in place under a running poll are excepted.        *)
NothingPassedOver ==
    ~Replaced(current, Len(files[current])) /\ current \notin torn =>
        \A k \in 1 .. SmallerOf(cursor.offset, Len(files[current])) :
            EndsLine(files[current][k]) => Dealt(files[current][k][1])

(* Only records that are too large are quarantined, however the batches of    *)
(* the tailers cut the file into pieces.                                      *)
OnlyOversizedQuarantined == torn = {} => \A l \in quarantined : Size[l] > MaxRecordBytes

(* What is skipped was imported, and what was quarantined had to be.          *)
SpoolSound == NothingPassedOver /\ OnlyOversizedQuarantined

Written(l) == \E k \in 1 .. Len(files[current]) :
                  files[current][k][1] = l /\ EndsLine(files[current][k])

(* Every complete line is imported in the end, unless its file goes away.     *)
EveryLineImported ==
    \A l \in Lines : Written(l) ~> (Dealt(l) \/ ~Written(l) \/ current \in torn)
=============================================================================
