------------------------------ MODULE JsonBuilder ------------------------------
(***************************************************************************)
(* json::Builder of src/TransportSystem/json_builder.{h,cpp}.              *)
(*                                                                         *)
(* State: root_ (a Node, null until a whole value is given) and           *)
(* nodes_stack_ (the open containers, each key of a dict pushed as a      *)
(* string node above its dict until its value arrives).  The heap nodes   *)
(* the stack points to are replaced by their values; the copy-and-replace *)
(* of a container on every Value call is modelled by what it does, an     *)
(* append or an emplace.  The item contexts returned by Key, StartDict    *)
(* and StartArray only forward to the builder (their deleted methods act  *)
(* at compile time); the calls are modelled on the builder itself, which *)
(* Value, EndDict and EndArray return, and so accepts any call.           *)
(*                                                                         *)
(* Values are the records of JsonFrames; a key on the stack is            *)
(* [t |-> "key", k |-> key] (Node(key) is a string node).  Every call      *)
(* either returns or throws std::logic_error, and the outcome is out.     *)
(***************************************************************************)
EXTENDS Integers, Sequences, SequencesExt, Json

CONSTANTS
    Keys,     \* keys a Key call may pass
    Values    \* scalar (and null) values a Value call may pass

VARIABLES
    root,        \* root_
    nodesStack,  \* nodes_stack_
    out          \* outcome of the latest call: ok, thrown, or built with the Node

vars == <<root, nodesStack, out>>

NullNode == [t |-> "null"]   \* Node(nullptr), the initial root_

Top(s) == s[Len(s)]

(* a call's effect on [root, stack]: the new state, or thrown *)
Done(r, s) == [root |-> r, stack |-> s, thrown |-> FALSE]
Throws     == [thrown |-> TRUE]

(***************************************************************************)
(* Builder::Value: refused once root_ is set; with an empty stack the     *)
(* value becomes root_; an array on top gets it appended; a key on top is *)
(* popped and the value emplaced under it into the dict below; anything   *)
(* else (a dict with no key) throws.                                      *)
(***************************************************************************)
ValueOp(r, s, v) ==
    IF r # NullNode THEN Throws
    ELSE IF s = <<>> THEN Done(v, s)
    ELSE IF Top(s).t = "array"
         THEN Done(r, [s EXCEPT ![Len(s)].items = Append(@, v)])
    ELSE IF Top(s).t = "key"
         THEN LET k == Top(s).k
                  d == Front(s)
              IN  Done(r, [d EXCEPT ![Len(d)].entries =
                                IF k \in DOMAIN @ THEN @ ELSE (k :> v) @@ @])
    ELSE Throws

(* mutant: Key's IsDict check dropped *)
KeyOpAnyTop(r, s, k) ==
    IF s = <<>> \/ r # NullNode THEN Throws
    ELSE Done(r, Append(s, [t |-> "key", k |-> k]))

(* Builder::Key: a string node is pushed above the dict on top *)
KeyOp(r, s, k) ==
    IF s = <<>> \/ r # NullNode THEN Throws
    ELSE IF Top(s).t # "dict" THEN Throws
    ELSE Done(r, Append(s, [t |-> "key", k |-> k]))

(* Builder::StartArray / StartDict: allowed at the start, in an array or *)
(* after a key; an empty container is pushed                              *)
StartOp(r, s, empty) ==
    IF r # NullNode THEN Throws
    ELSE IF ~(s = <<>> \/ Top(s).t \in {"array", "key"}) THEN Throws
    ELSE Done(r, Append(s, empty))

(***************************************************************************)
(* Builder::EndArray / EndDict: the container on top must be of the kind *)
(* closed; the last one becomes root_, an inner one is popped and passed *)
(* to Value.  An empty stack throws.                                       *)
(***************************************************************************)
(* mutant: an inner container popped but never handed to Value *)
EndOpNoValue(r, s, kind) ==
    IF Len(s) = 1 THEN IF Top(s).t # kind THEN Throws ELSE Done(Top(s), <<>>)
    ELSE IF Len(s) > 1 THEN IF Top(s).t # kind THEN Throws ELSE Done(r, Front(s))
    ELSE Throws

EndOp(r, s, kind) ==
    IF Len(s) = 1 THEN IF Top(s).t # kind THEN Throws ELSE Done(Top(s), <<>>)
    ELSE IF Len(s) > 1 THEN IF Top(s).t # kind THEN Throws
                            ELSE ValueOp(r, Front(s), Top(s))
    ELSE Throws

(* Builder::Build: root_ must be set and the stack empty *)
BuildOp(r, s) ==
    IF r = NullNode THEN Throws
    ELSE IF s # <<>> THEN Throws
    ELSE [root |-> r, stack |-> s, thrown |-> FALSE, node |-> r]

-----------------------------------------------------------------------------
Init ==
    /\ root = NullNode
    /\ nodesStack = <<>>
    /\ out = [kind |-> "ok"]

(* a call returns (out = "ok") or throws leaving the builder as it was *)
Apply(res) ==
    IF res.thrown THEN out' = [kind |-> "thrown"] /\ UNCHANGED <<root, nodesStack>>
    ELSE root' = res.root /\ nodesStack' = res.stack /\ out' = [kind |-> "ok"]

Value(v)   == Apply(ValueOp(root, nodesStack, v))
Key(k)     == Apply(KeyOp(root, nodesStack, k))
StartArray == Apply(StartOp(root, nodesStack, [t |-> "array", items |-> <<>>]))
StartDict  == Apply(StartOp(root, nodesStack, [t |-> "dict", entries |-> <<>>]))
EndArray   == Apply(EndOp(root, nodesStack, "array"))
EndDict    == Apply(EndOp(root, nodesStack, "dict"))

Build ==
    LET res == BuildOp(root, nodesStack)
    IN  IF res.thrown THEN out' = [kind |-> "thrown"] /\ UNCHANGED <<root, nodesStack>>
        ELSE out' = [kind |-> "built", node |-> res.node] /\ UNCHANGED <<root, nodesStack>>

Next ==
    \/ \E v \in Values : Value(v)
    \/ \E k \in Keys : Key(k)
    \/ StartArray \/ StartDict \/ EndArray \/ EndDict
    \/ Build

Spec == Init /\ [][Next]_vars

-----------------------------------------------------------------------------
(***************************************************************************)
(* Refinement mapping to the frame stack of JsonFrames: a set root_ is    *)
(* the completed document; each container on the stack is a frame, a dict *)
(* followed by a key node being a dict frame that expects that key's      *)
(* value.                                                                  *)
(***************************************************************************)
RECURSIVE FramesOf(_)
FramesOf(s) ==
    IF s = <<>> THEN <<>>
    ELSE IF Head(s).t = "array"
         THEN <<[kind |-> "array", items |-> Head(s).items]>> \o FramesOf(Tail(s))
    ELSE IF Len(s) >= 2 /\ s[2].t = "key"
         THEN <<[kind |-> "dict", entries |-> Head(s).entries, pending |-> s[2].k]>>
              \o FramesOf(Tail(Tail(s)))
    ELSE <<[kind |-> "dict", entries |-> Head(s).entries, pending |-> "no key"]>>
         \o FramesOf(Tail(s))

Abstract == INSTANCE JsonFrames WITH
                doc <- IF root = NullNode THEN [t |-> "nodoc"] ELSE root,
                frames <- FramesOf(nodesStack),
                out <- out

(* Every sequence of Builder calls behaves as spec 9's frame stack: each  *)
(* Value, Key, StartArray/StartDict, EndArray/EndDict and Build succeeds  *)
(* or throws exactly when the frame discipline allows it, and Build       *)
(* returns the document the calls describe.                                *)
BuilderImplementsFrames == Abstract!Spec

(* A response the Builder completes is printed by json::Print, and the   *)
(* printed text read back by json::Load is the same document: every      *)
(* string and key escaped by PrintString is unescaped by LoadString, the *)
(* ",\n" separators and indentation are skipped by LoadArray and         *)
(* LoadDict, and no element is lost or doubled.                           *)
PrintedDocumentReloads ==
    out.kind = "built" => Load(PrintDocument(out.node)) = [ok |-> TRUE, node |-> out.node]

(* A key node sits only directly above a dict node, and root_ is set only *)
(* once the stack is empty (Key's IsDict check and the root_ checks).     *)
TypeOK ==
    /\ \A i \in 1..Len(nodesStack) :
          /\ nodesStack[i].t \in {"array", "dict", "key"}
          /\ nodesStack[i].t = "key" => i > 1 /\ nodesStack[i - 1].t = "dict"
    /\ root # NullNode => nodesStack = <<>>

=============================================================================
