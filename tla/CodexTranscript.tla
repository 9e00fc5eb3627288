--------------------------- MODULE CodexTranscript ---------------------------
(***************************************************************************)
(* The parser of a Codex transcript (internal/acquisition/transcript).  A  *)
(* file is read in chunks; what one chunk leaves open is carried to the    *)
(* next in a state that is saved with the cursor.  A message is recorded   *)
(* twice, as an event and as a response, the result of a call as an output *)
(* and as a completed item, the usage of a turn as a count and as an exact *)
(* record: however a file is cut, a thing must be imported once.           *)
(*                                                                         *)
(* A record is [kind, id, project]; a turn is known by its identity, the hash that  *)
(* becomes its source_record_key.  Text, time, price and the fields of a   *)
(* turn are left out.                                                      *)
(***************************************************************************)
EXTENDS Naturals, Sequences, FiniteSets

NoTurn == "no turn"
NoProject == "no project"

(* acquisition.State, of which EventMessageFallbacks is "fallbacks". *)
NewState == [turn |-> NoTurn, project |-> NoProject, responses |-> {}, fallbacks |-> {},
             pending |-> {}, finalized |-> {}, results |-> {}]

(* type parser: what lives only as long as one chunk is read. *)
NewParser(state) == [state |-> state, turns |-> {}, waiting |-> {}, metered |-> {},
                     open |-> {}, issues |-> FALSE]

MessageKey(signature) == <<"message", signature>>
UsageKey(turn) == <<"usage", turn>>
LineKey(line) == <<"line", line>>

(* codexMessageSignature: the text (the id), within the current turn. *)
Signature(p, r) == <<p.state.turn, r.id>>

Emit(p, key) == [p EXCEPT !.turns = @ \cup {key}]

(* A context names the turn and the directory; session_meta only the latter. *)
ParseTurnContext(p, r) == [p EXCEPT !.state.turn = r.id, !.state.project = r.project]
ParseSessionMeta(p, r) == [p EXCEPT !.state.project = r.project]

ParseResponseMessage(p, r) ==
    LET s == Signature(p, r)
    IN  [Emit(p, MessageKey(s)) EXCEPT !.state.responses = @ \cup {s},
                                       !.state.fallbacks = @ \ {s}]

ParseEventMessage(p, r) ==
    LET s == Signature(p, r)
    IN  IF s \in p.state.responses THEN p ELSE [p EXCEPT !.waiting = @ \cup {s}]

ParseTokenUsage(p, r) ==
    LET q == [p EXCEPT !.state.pending = @ \ {r.id}, !.metered = @ \cup {r.id}]
    IN  IF r.id \in p.state.finalized THEN q ELSE Emit(q, UsageKey(r.id))

ParseTokenCount(p, r) ==
    LET t == p.state.turn
    IN  IF t \in {NoTurn} \cup p.metered \cup p.state.finalized THEN p
        ELSE [p EXCEPT !.state.pending = @ \cup {t}]

NewResult(p, r, line) ==
    [Emit(p, LineKey(line)) EXCEPT !.open = @ \cup {r.id}, !.state.results = @ \cup {r.id}]

(* The output of a call fills the result that is open in this chunk. *)
ParseCallOutput(p, r, line) ==
    IF r.id \in p.open \cup p.state.results THEN p ELSE NewResult(p, r, line)

(* A completed command adds its exit code to the result that is open in this
   chunk, and becomes a supplemental turn when an earlier chunk had it. *)
ParseCompletedItem(p, r, line) ==
    CASE r.id \in p.open -> p
      [] r.id \in p.state.results \ p.open -> Emit(p, LineKey(line))
      [] OTHER -> NewResult(p, r, line)

ParseRecord(p, r, line) ==
    CASE r.kind = "context"   -> ParseTurnContext(p, r)
      [] r.kind = "meta"      -> ParseSessionMeta(p, r)
      [] r.kind = "response"  -> ParseResponseMessage(p, r)
      [] r.kind = "event"     -> ParseEventMessage(p, r)
      [] r.kind = "usage"     -> ParseTokenUsage(p, r)
      [] r.kind = "count"     -> ParseTokenCount(p, r)
      [] r.kind = "output"    -> ParseCallOutput(p, r, line)
      [] r.kind = "completed" -> ParseCompletedItem(p, r, line)
      [] r.kind = "malformed" -> [p EXCEPT !.issues = TRUE]

(* applyCodexMessageFallbacks: events no response was seen for. *)
ApplyFallbacks(p) ==
    LET left == p.waiting \ p.state.responses
    IN  [p EXCEPT !.turns = @ \cup {MessageKey(s) : s \in left},
                  !.state.fallbacks = @ \cup left]

(* FinalizePendingCodexUsage: the counts are taken for the exact usage. *)
FinalizeUsage(p) ==
    [p EXCEPT !.turns = @ \cup {UsageKey(t) : t \in p.state.pending},
              !.state.finalized = @ \cup p.state.pending,
              !.state.pending = {}]

(* Parse the lines from first to last; a chunk that ends within a line has
   lines, but no fallbacks: Parse returns before it applies them. *)
Parse(records, first, last, torn, state) ==
    LET read[k \in (first - 1) .. last] ==
            IF k < first THEN NewParser(state)
            ELSE CHOOSE q \in {ParseRecord(p, records[k], k) : p \in {read[k - 1]}} : TRUE
    IN  IF torn THEN read[last] ELSE ApplyFallbacks(read[last])

(* What the lines 1 .. n say whatever the cuts: the messages with a response,
   the calls with a result (by the first line that has one) and the exact usage. *)
Certain(records, n) ==
    LET p == Parse(records, 1, n, TRUE, NewState) IN p.turns

(* What must be there once the pending usage has been finalised. *)
Final(records, n) ==
    FinalizeUsage(Parse(records, 1, n, TRUE, NewState)).turns
=============================================================================
