-------------------------- MODULE TranscriptImport --------------------------
(***************************************************************************)
(* The import of native transcripts (internal/localapp/transcript.go).  An *)
(* agent appends lines to the files of a session; the poll of the owner    *)
(* (owner "tail") and a scan of the history (owner "backfill") read them   *)
(* in chunks, append what the parser makes of a chunk to the store, and    *)
(* then save a cursor, with the state of the parser, for every file.       *)
(***************************************************************************)
EXTENDS CodexTranscript, TranscriptStore

CONSTANTS
    Sources,        \* the files, as numbers: the primary file of a group first
    GroupOf,        \* the group of a file
    Script,         \* what the agent writes: Script[s][k] is the k-th content
                    \* that ever is at the path of s
    Present,        \* the lines that are there when the program starts
    Importers,      \* a process that imports, and
    OwnerOf,        \* whether it is the poll or the scan
    ChunkBytes,     \* transcriptTailChunk, transcriptBackfillChunk
    MaxFaults       \* bound: processes that end, transactions that fail

LineBytes == 2      \* a line may be seen half written

ImportAssumption ==
    /\ Sources \subseteq Nat /\ GroupOf \in [Sources -> Groups]
    /\ OwnerOf \in [Importers -> {"tail", "backfill"}]
    /\ ChunkBytes \in [{"tail", "backfill"} -> Nat \ {0}]
    /\ \A s \in Sources : Len(Script[s]) > 0

VARIABLES
    file,       \* what is at the path: content, lines, half a line more, active
    saved,      \* the cursor files
    importer,   \* the group at hand and its open files
    faults

importVars == <<file, saved, importer, faults>>
importAll == <<file, saved, importer, faults, session, turns, project, analysis>>

Without == [offset |-> 0, content |-> 0, owner |-> "", finalized |-> FALSE,
            serviced |-> 0, issues |-> FALSE, state |-> NewState]

Resting == [step |-> "rest", group |-> Unknown, items |-> <<>>, batch |-> {},
            session |-> Unknown, idle |-> FALSE, todo |-> {}]

Bytes(f) == LineBytes * f.lines + (IF f.half THEN 1 ELSE 0)
Records(s, content) == Script[s][content]
SourcesOf(g) == {s \in Sources : GroupOf[s] = g}
HasCursor(s) == saved[s].serviced > 0

ImportInit ==
    /\ file = [s \in Sources |->
                 [content |-> 1, lines |-> Present[s], half |-> FALSE, active |-> TRUE]]
    /\ saved = [s \in Sources |-> Without]
    /\ importer = [i \in Importers |-> Resting]
    /\ faults = MaxFaults

-----------------------------------------------------------------------------
(* The agent, and time. *)

(* Half a line, and then the rest of it. *)
AgentWrites(s) ==
    LET f == file[s]
    IN  /\ f.lines < Len(Records(s, f.content))
        /\ file' = [file EXCEPT ![s] =
             [@ EXCEPT !.active = TRUE, !.half = ~f.half,
                       !.lines = IF f.half THEN f.lines + 1 ELSE f.lines]]
        /\ UNCHANGED <<saved, importer, faults, storeVars>>

(* Another file takes the place of the file, under an identity of its own. *)
Replace(s) ==
    /\ file[s].content < Len(Script[s]) /\ ~file[s].half
    /\ file' = [file EXCEPT ![s] =
         [content |-> @.content + 1, lines |-> 0, half |-> FALSE, active |-> TRUE]]
    /\ UNCHANGED <<saved, importer, faults, storeVars>>

(* transcriptActiveWindow goes by. *)
GoesIdle(s) ==
    /\ file[s].active
    /\ file' = [file EXCEPT ![s].active = FALSE]
    /\ UNCHANGED <<saved, importer, faults, storeVars>>

-----------------------------------------------------------------------------
(* The choice of a group: planTranscriptGroups, transcriptGroupCursorStatus. *)

Recent(g) == \E s \in SourcesOf(g) : file[s].active
CaughtUp(s) == saved[s].offset >= Bytes(file[s])
TailOwned(g) ==
    \E s \in SourcesOf(g) :
        /\ HasCursor(s) /\ saved[s].owner = "tail"
        /\ ~(CaughtUp(s) /\ saved[s].finalized)
CompleteGroup(g) ==
    \A s \in SourcesOf(g) : HasCursor(s) /\ CaughtUp(s) /\ saved[s].finalized

(* ServicedAt of a group: of its cursors, the one serviced longest ago. *)
Serviced(g) ==
    LET ts == {saved[s].serviced : s \in {x \in SourcesOf(g) : HasCursor(x)}}
    IN  IF ts = {} THEN 0 ELSE CHOOSE t \in ts : \A u \in ts : t <= u

(* The poll takes one group, the one that waits longest. *)
First(g, candidates) ==
    \A h \in candidates : Serviced(g) <= Serviced(h)

(* What each importer may take. *)
Candidates(owner) ==
    LET tail == {g \in Groups : Recent(g) \/ TailOwned(g)}
        history == {g \in Groups : ~Recent(g) /\ ~TailOwned(g) /\ ~CompleteGroup(g)}
    IN  IF owner = "tail" THEN {g \in tail : First(g, tail)} ELSE history

-----------------------------------------------------------------------------
(* importTranscriptGroupSnapshotAt. *)

(* The file is shorter, or another one, than the cursor was saved for (device,
   inode and the digest of the prefix are one identity here). *)
IsReset(s) ==
    \/ saved[s].offset > Bytes(file[s])
    \/ saved[s].content # 0 /\ saved[s].content # file[s].content

(* transcriptChunkEnd: the first line end behind the chunk, or the size. *)
ChunkEnd(start, size, chunk) ==
    LET ends == {e \in (start + chunk + 1) .. size : e % LineBytes = 0}
    IN  IF start + chunk >= size \/ ends = {} THEN size
        ELSE CHOOSE e \in ends : \A f \in ends : e <= f

(* One file: its cursor, where to read on, and what the parser makes of it. *)
Item(s, owner) ==
    LET f == file[s]
        reset == IsReset(s)
        start == IF reset THEN 0 ELSE saved[s].offset
        state == IF reset THEN NewState ELSE saved[s].state
        end == ChunkEnd(start, Bytes(f), ChunkBytes[owner])
        last == end \div LineBytes      \* the last whole line of the chunk
        torn == end % LineBytes # 0
        changed == start # Bytes(f) \/ reset
        kept == [changed |-> FALSE, content |-> saved[s].content, size |-> Bytes(f),
                 active |-> f.active, end |-> start, whole |-> TRUE, state |-> state,
                 turns |-> {}, issues |-> saved[s].issues, finalized |-> saved[s].finalized]
        read(p) == [kept EXCEPT !.changed = TRUE, !.content = f.content,
                      !.end = LineBytes * last, !.state = p.state, !.turns = p.turns,
                      !.whole = ~torn /\ end = Bytes(f) /\ ~p.issues,
                      !.issues = @ \/ p.issues, !.finalized = FALSE]
    IN  IF ~changed THEN kept
        ELSE CHOOSE item \in {read(p) : p \in
               {Parse(Records(s, f.content), (start \div LineBytes) + 1, last, torn, state)}} : TRUE

(* source_record_key: a line counts with its digest, that is with the content. *)
Identities(s, content, keys) ==
    {IF k[1] = "line" THEN <<s, content, k>> ELSE <<s, k>> : k \in keys}

\* Mutant: the group is marked, but its usage is left pending.
FinalizeMarkOnly(item) == item

(* FinalizePendingCodexUsage *)
Finalize(item) ==
    LET p == FinalizeUsage([NewParser(item.state) EXCEPT !.turns = item.turns])
    IN  [item EXCEPT !.state = p.state, !.turns = p.turns]

(* assembleTranscriptGroup: the first file that has a project names it. *)
ProjectOf(items) ==
    LET known == {s \in DOMAIN items : items[s].state.project # NoProject}
    IN  IF known = {} THEN NoProject
        ELSE items[CHOOSE s \in known : \A r \in known : s <= r].state.project

(* transcriptGroupCaughtUp *)
AllRead(items) == \A s \in DOMAIN items : items[s].end = items[s].size

(* CoverageLive, CoveragePartial or CoverageComplete. *)
Coverage(items, changed, idle) ==
    LET open == IF changed = {} THEN DOMAIN items ELSE changed
        wanting == {s \in open : items[s].state.fallbacks # {} \/
                       IF changed = {} THEN items[s].issues ELSE ~items[s].whole}
    IN  CASE wanting # {} -> "partial"
          [] wanting = {} /\ (idle \/ changed = {}) -> "complete"
          [] OTHER -> "live"

\* Mutant: a group without pending usage is not finalised.
EligibleForUsage(items) == \E s \in DOMAIN items : items[s].state.pending # {}

(* transcriptGroupFinalizationEligible, of a group that is idle and read *)
Eligible(items) ==
    \E s \in DOMAIN items : ~items[s].finalized \/ items[s].state.pending # {}

(* What is left to do with the open files of a group: a batch with new lines, a
   finalisation, or a mark that the poll came by. *)
Decided(g, owner, raw) ==
    LET files == SourcesOf(g)
        changed == {s \in files : raw[s].changed}
        idle == (\A s \in files : ~raw[s].active) /\ AllRead(raw)
        eligible == idle /\ Eligible(raw)
        items == IF idle THEN [s \in files |-> Finalize(raw[s])] ELSE raw
        next == [Resting EXCEPT !.group = g, !.items = items, !.idle = idle,
                   !.todo = IF changed = {} THEN files ELSE changed,
                   !.batch = UNION {Identities(s, items[s].content, items[s].turns) :
                                      s \in files},
                   !.session = [project |-> ProjectOf(items),
                                coverage |-> Coverage(items, changed, idle)]]
    IN  CASE (changed # {} \/ eligible) /\ ProjectOf(raw) # NoProject ->
               [next EXCEPT !.step = "append"]
          [] changed = {} /\ ~eligible /\ owner = "tail" -> [next EXCEPT !.step = "mark"]
          [] OTHER -> Resting

(* Plan, and then open the files of a group and parse a chunk of each. *)
OpenGroup(i) ==
    /\ importer[i].step = "rest"
    /\ \E g \in Candidates(OwnerOf[i]) :
         \E raw \in {[s \in SourcesOf(g) |-> Item(s, OwnerOf[i])]} :
            importer' = [importer EXCEPT ![i] = Decided(g, OwnerOf[i], raw)]
    /\ UNCHANGED <<file, saved, faults, storeVars>>

AppendBatch(i) ==
    /\ importer[i].step = "append"
    /\ AppendTranscriptBatch(importer[i].group, importer[i].session, importer[i].batch)
    /\ importer' = [importer EXCEPT ![i].step = "save"]
    /\ UNCHANGED <<file, saved, faults>>

(* ServicedAt = now; only the order of the times matters. *)
Renumbered(f) ==
    [s \in Sources |-> [f[s] EXCEPT !.serviced =
        Cardinality({f[r].serviced : r \in {x \in Sources :
            0 < f[x].serviced /\ f[x].serviced <= f[s].serviced}})]]

Now == 1 + Cardinality(Sources)

\* Mutant: the cursor is saved before the batch is in the store.
MaySaveEarly(i) == importer[i].step \in {"append", "save", "mark"}

MaySave(i) == importer[i].step \in {"save", "mark"}

(* saveTranscriptCursor, one file at a time.  A mark and a finalisation keep
   the place of the cursor they opened; a finalisation completes it. *)
SaveCursor(i) ==
    LET me == importer[i]
        s == CHOOSE x \in me.todo : \A y \in me.todo : x <= y
        item == me.items[s]
        cursor == [offset |-> item.end, content |-> item.content, owner |-> OwnerOf[i],
                   finalized |-> IF me.step = "mark" THEN item.finalized ELSE me.idle,
                   serviced |-> Now, issues |-> item.issues, state |-> item.state]
    IN  /\ MaySave(i) /\ me.todo # {}
        /\ saved' = Renumbered([saved EXCEPT ![s] = cursor])
        /\ importer' = [importer EXCEPT ![i] =
             IF me.todo = {s} THEN Resting ELSE [@ EXCEPT !.todo = @ \ {s}]]
        /\ UNCHANGED <<file, faults, storeVars>>

(* The process ends between two steps, or a step fails: nothing more is saved. *)
Fault(i) ==
    /\ importer[i].step # "rest" /\ faults > 0
    /\ importer' = [importer EXCEPT ![i] = Resting]
    /\ faults' = faults - 1
    /\ UNCHANGED <<file, saved, storeVars>>

-----------------------------------------------------------------------------
ImportStep(i) == OpenGroup(i) \/ AppendBatch(i) \/ SaveCursor(i)

ImportNext ==
    \/ \E s \in Sources : AgentWrites(s) \/ Replace(s) \/ GoesIdle(s)
    \/ \E i \in Importers : OpenGroup(i) \/ AppendBatch(i) \/ SaveCursor(i) \/ Fault(i)

(* The poll comes back every two seconds and a file is idle in the end; no
   scan has to be started. *)
ImportFairness ==
    /\ \A i \in Importers : OwnerOf[i] = "tail" =>
          WF_importAll(ImportStep(i))
    /\ \A s \in Sources : WF_importAll(GoesIdle(s))

ImportSpec ==
    ImportInit /\ StoreInit /\ [][ImportNext]_importAll /\ ImportFairness

-----------------------------------------------------------------------------
(* Properties. *)

InFile(s) == saved[s].content = file[s].content

(* A cursor is never ahead of the store: what it stands behind has been       *)
(* imported, for however many importers, cuts and replays.                    *)
CursorBehindStore ==
    \A s \in Sources : HasCursor(s) =>
        LET c == saved[s].content
        IN  c # 0 => Identities(s, c, Certain(Records(s, c), saved[s].offset \div LineBytes))
                        \subseteq turns[GroupOf[s]]

(* A group that counts as complete, and that no importer will look at again,  *)
(* has all its lines and also the usage that was only ever counted.           *)
CompleteMeansImported ==
    \A g \in Groups : CompleteGroup(g) /\ ~Recent(g) =>
        \A s \in SourcesOf(g) : InFile(s) =>
            LET c == file[s].content
            IN  Identities(s, c, Final(Records(s, c), file[s].lines)) \subseteq turns[g]

(* What the poll has taken over it finishes, once the agents have stopped at   *)
(* the end of a line: the files get their finalisation, and lose the owner.   *)
TailedIsCompleted ==
    \A g \in Groups : TailOwned(g) ~> ~TailOwned(g) \/ \E s \in Sources : file[s].half

(* The poll rotates: a group is finished whatever the files of the other      *)
(* groups are like.                                                           *)
EveryGroupTakesItsTurn ==
    \A g \in Groups :
        TailOwned(g) ~> ~TailOwned(g) \/ \E s \in SourcesOf(g) : file[s].half
=============================================================================
