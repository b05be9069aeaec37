------------------------------ MODULE JsonFrames ------------------------------
(***************************************************************************)
(* What a fluent document builder promises (spec 9): an explicit stack of *)
(* frames, one per container being built, each tagged with what it         *)
(* expects next; every call is checked against the top frame and fails    *)
(* fast on an invalid sequence, leaving everything as it was.  Once a     *)
(* whole value has been given the document is complete, every further    *)
(* call but Build fails, and Build returns the document.                  *)
(*                                                                         *)
(* A value is a record: [t |-> "scalar", v |-> x], [t |-> "null"],        *)
(* [t |-> "array", items |-> a sequence of values] or                     *)
(* [t |-> "dict", entries |-> a function from keys to values].  A key     *)
(* that is already in a dict keeps its first value (std::map::emplace,    *)
(* the one dictionary the builder's documents have).                      *)
(***************************************************************************)
EXTENDS Integers, Sequences, SequencesExt

CONSTANTS
    Keys,     \* keys a Key call may pass
    Values    \* scalar (and null) values a Value call may pass

VARIABLES
    doc,      \* NoDoc, or the completed document
    frames,   \* the containers being built, innermost last
    out       \* outcome of the latest call: ok, thrown, or built with the document

NoDoc == [t |-> "nodoc"]
NoKey == "no key"

EmptyFrame(kind) ==
    IF kind = "array" THEN [kind |-> "array", items |-> <<>>]
    ELSE [kind |-> "dict", entries |-> <<>>, pending |-> NoKey]

(* a frame that can take a value: an array, or a dict right after a key *)
Accepting(f) == f.kind = "array" \/ f.pending # NoKey

CanPlace == doc = NoDoc /\ (frames = <<>> \/ Accepting(frames[Len(frames)]))

Insert(f, v) ==
    IF f.kind = "array" THEN [f EXCEPT !.items = Append(@, v)]
    ELSE [f EXCEPT !.entries = IF f.pending \in DOMAIN @ THEN @ ELSE (f.pending :> v) @@ @,
                   !.pending = NoKey]

(* v completes the document or goes into the innermost frame *)
Place(fs, v) ==
    IF fs = <<>> THEN doc' = v /\ frames' = fs
    ELSE doc' = doc /\ frames' = [fs EXCEPT ![Len(fs)] = Insert(@, v)]

FrameValue(f) ==
    IF f.kind = "array" THEN [t |-> "array", items |-> f.items]
    ELSE [t |-> "dict", entries |-> f.entries]

Fail == out' = [kind |-> "thrown"] /\ UNCHANGED <<doc, frames>>

Init ==
    /\ doc = NoDoc
    /\ frames = <<>>
    /\ out = [kind |-> "ok"]

PutValue(v) ==
    IF CanPlace THEN Place(frames, v) /\ out' = [kind |-> "ok"] ELSE Fail

NameKey(k) ==
    IF /\ doc = NoDoc /\ frames # <<>>
       /\ frames[Len(frames)].kind = "dict" /\ frames[Len(frames)].pending = NoKey
    THEN /\ frames' = [frames EXCEPT ![Len(frames)].pending = k]
         /\ out' = [kind |-> "ok"] /\ UNCHANGED doc
    ELSE Fail

Open(kind) ==
    IF CanPlace
    THEN frames' = Append(frames, EmptyFrame(kind)) /\ out' = [kind |-> "ok"] /\ UNCHANGED doc
    ELSE Fail

Close(kind) ==
    IF /\ frames # <<>>
       /\ frames[Len(frames)].kind = kind
       /\ ~(kind = "dict" /\ frames[Len(frames)].pending # NoKey)
    THEN Place(Front(frames), FrameValue(frames[Len(frames)])) /\ out' = [kind |-> "ok"]
    ELSE Fail

Build ==
    IF doc # NoDoc
    THEN out' = [kind |-> "built", node |-> doc] /\ UNCHANGED <<doc, frames>>
    ELSE Fail

Next ==
    \/ \E v \in Values : PutValue(v)
    \/ \E k \in Keys : NameKey(k)
    \/ \E kind \in {"array", "dict"} : Open(kind) \/ Close(kind)
    \/ Build

Spec == Init /\ [][Next]_<<doc, frames, out>>

=============================================================================
