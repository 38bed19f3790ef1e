------------------------------- MODULE Variant -------------------------------
(***************************************************************************)
(* kudu::Variant (src/kudu/common/types.h): a boxed value of any DataType. *)
(* A fixed-width value lives in the numeric_ union; a BINARY, STRING or    *)
(* VARCHAR value is the Slice vstr_, which points either at the constant   *)
(* "" (EMPTY) or at a heap block the box allocated with new[] and must     *)
(* delete[] exactly once.  The heap is modelled: which blocks are live and *)
(* what they hold.  A Reset's source is the pointer the caller passes: a   *)
(* value of its own, or the value() of a box (possibly the same box).      *)
(***************************************************************************)
EXTENDS KuduTypes, FiniteSets

CONSTANTS
  Variants,       \* the Variant objects
  Blocks,         \* heap blocks new[] may return
  Types,          \* DataTypes the boxes are reset to
  NumVals,        \* fixed-width values callers pass
  Strs,           \* byte strings callers pass (and their copies)
  EMPTY,          \* the static "" a cleared Slice points at
  AllowSelfReset  \* whether a caller may pass a box its own value()

VARIABLES
  alive,      \* constructed and not yet destroyed
  type_,      \* Variant::type_
  numeric_,   \* Variant::numeric_
  vstr_,      \* Variant::vstr_: EMPTY or the block its data points into
  heapLive,   \* blocks allocated and not yet deleted
  heapData,   \* bytes stored in each block (stale once deleted)
  memErr,     \* undefined-behaviour events seen so far (history)
  requested   \* the value the caller handed to the last Reset (history)

vars == <<alive, type_, numeric_, vstr_, heapLive, heapData, memErr, requested>>

\* An absent box: not constructed, or destroyed.
NoValue == [type |-> "UNKNOWN_DATA", payload |-> << >>]
\* The bytes of a deleted block: a sequence no real byte string equals.
Dangling == << -1 >>

\* A source pointer: caller-owned data, or the value() of box w.
Sources(t) ==
  [kind: {"data"}, val: IF IsVarLen(t) THEN Strs ELSE NumVals]
  \cup [kind: {"box"}, box: Variants]

(***************************************************************************)
(* What a box holds, read through value(): the payload of the numeric_     *)
(* member, or the bytes vstr_ points at (Dangling once they are deleted).  *)
(***************************************************************************)
SliceBytes(s, live, data) ==
  IF s = EMPTY THEN << >> ELSE IF s \in live THEN data[s] ELSE Dangling

Stored(v) ==
  IF ~alive[v] THEN NoValue
  ELSE [type |-> type_[v],
        payload |-> IF IsVarLen(type_[v])
                    THEN SliceBytes(vstr_[v], heapLive, heapData)
                    ELSE numeric_[v]]

\* Mutant: delete[] without resetting vstr_ (the vstr_.clear() forgotten).
ClearKeepSlice(v) ==
  [vstr |-> vstr_[v],
   live |-> heapLive \ {vstr_[v]},
   err  |-> IF vstr_[v] # EMPTY /\ vstr_[v] \notin heapLive
            THEN {"double_free"} ELSE {}]

\* Mutant: nothing released.
ClearNothing(v) == [vstr |-> vstr_[v], live |-> heapLive, err |-> {}]

(***************************************************************************)
(* Variant::Clear(): a non-empty vstr_ is deleted and reset to "".  The    *)
(* result is the new vstr_, the live blocks and any double delete.         *)
(***************************************************************************)
Clear(v) ==
  IF vstr_[v] = EMPTY
  THEN [vstr |-> EMPTY, live |-> heapLive, err |-> {}]
  ELSE [vstr |-> EMPTY,
        live |-> heapLive \ {vstr_[v]},
        err  |-> IF vstr_[v] \notin heapLive THEN {"double_free"} ELSE {}]

\* Mutant: new[size - 1] / memcpy of size - 1 bytes.
CopyShort(bytes) == SubSeq(bytes, 1, Len(bytes) - 1)

\* Mutant: the copy takes a terminating NUL along (size() + 1 bytes).
CopyWithTerminator(bytes) == Append(bytes, 0)

\* new uint8_t[str->size()] + memcpy: the bytes the fresh block receives.
CopyBytes(bytes) == bytes

(***************************************************************************)
(* The body of Variant::Reset(type, value) once Clear() has run: the       *)
(* source is dereferenced now, so a source pointing at this box's own      *)
(* vstr_ sees it already cleared.  For the Slice types an empty source     *)
(* keeps vstr_ at "", anything else gets a fresh block.                    *)
(***************************************************************************)
Install(v, t, src, c) ==
  LET srcSlice == IF src.kind = "data" THEN src.val
                  ELSE IF src.box = v THEN c.vstr
                  ELSE vstr_[src.box]
      bytes    == IF src.kind = "data" THEN src.val
                  ELSE SliceBytes(srcSlice, c.live, heapData)
      readErr  == IF src.kind = "box" /\ bytes = Dangling
                  THEN {"use_after_free"} ELSE {}
      num      == IF src.kind = "data" THEN src.val ELSE numeric_[src.box]
  IN /\ type_' = [type_ EXCEPT ![v] = t]
     /\ IF ~IsVarLen(t)
        THEN /\ numeric_' = [numeric_ EXCEPT ![v] = num]
             /\ vstr_' = [vstr_ EXCEPT ![v] = c.vstr]
             /\ heapLive' = c.live
             /\ memErr' = memErr \cup c.err
             /\ UNCHANGED heapData
        ELSE IF bytes = << >>
        THEN /\ vstr_' = [vstr_ EXCEPT ![v] = c.vstr]
             /\ heapLive' = c.live
             /\ memErr' = memErr \cup c.err \cup readErr
             /\ UNCHANGED <<numeric_, heapData>>
        ELSE \E blk \in Blocks \ c.live,
               copied \in IF bytes = Dangling THEN Strs \ {<< >>}  \* freed memory
                         ELSE {CopyBytes(bytes)} :
             /\ vstr_' = [vstr_ EXCEPT ![v] = blk]
             /\ heapLive' = c.live \cup {blk}
             /\ heapData' = [heapData EXCEPT ![blk] = copied]
             /\ memErr' = memErr \cup c.err \cup readErr
             /\ UNCHANGED numeric_

\* The value the caller means to store: *source as it is when Reset starts.
Intended(t, src) ==
  [type |-> t,
   payload |-> IF src.kind = "data" THEN src.val ELSE Stored(src.box).payload]

\* A source the caller may pass: a box of the same physical representation.
ValidSource(v, t, src) ==
  src.kind = "box" =>
    /\ alive[src.box]
    /\ PhysicalType(type_[src.box]) = PhysicalType(t)
    /\ (src.box = v => AllowSelfReset)

\* Mutant: a non-empty Slice of another box copied by pointer (aliased).
ResetShallow(v, t, src) ==
  /\ alive[v]
  /\ ValidSource(v, t, src)
  /\ IF IsVarLen(t) /\ src.kind = "box" /\ src.box # v /\ vstr_[src.box] # EMPTY
     THEN LET c == Clear(v)
          IN /\ type_' = [type_ EXCEPT ![v] = t]
             /\ vstr_' = [vstr_ EXCEPT ![v] = vstr_[src.box]]
             /\ heapLive' = c.live
             /\ memErr' = memErr \cup c.err
             /\ UNCHANGED <<numeric_, heapData>>
     ELSE Install(v, t, src, Clear(v))
  /\ requested' = [requested EXCEPT ![v] = Intended(t, src)]
  /\ UNCHANGED alive

(***************************************************************************)
(* Variant::Reset(DataType, value) and Reset<Type>(value): Clear(),   *)
(* then install the value.                                                 *)
(***************************************************************************)
Reset(v, t, src) ==
  /\ alive[v]
  /\ ValidSource(v, t, src)
  /\ Install(v, t, src, Clear(v))
  /\ requested' = [requested EXCEPT ![v] = Intended(t, src)]
  /\ UNCHANGED alive

\* Reset(const std::string&) and Reset(const char*, size_t): a STRING.
ResetString(v, s) ==
  /\ alive[v]
  /\ Install(v, "STRING", [kind |-> "data", val |-> s], Clear(v))
  /\ requested' = [requested EXCEPT ![v] = [type |-> "STRING", payload |-> s]]
  /\ UNCHANGED alive

\* Variant(type, value): vstr_ starts as "", then Reset(type, value).
Construct(v, t, src) ==
  /\ ~alive[v]
  /\ src.kind = "box" => src.box # v
  /\ ValidSource(v, t, src)
  /\ alive' = [alive EXCEPT ![v] = TRUE]
  /\ Install(v, t, src, [vstr |-> EMPTY, live |-> heapLive, err |-> {}])
  /\ requested' = [requested EXCEPT ![v] = Intended(t, src)]

\* ~Variant(): Clear().
Destroy(v) ==
  /\ alive[v]
  /\ LET c == Clear(v)
     IN /\ vstr_' = [vstr_ EXCEPT ![v] = c.vstr]
        /\ heapLive' = c.live
        /\ memErr' = memErr \cup c.err
  /\ alive' = [alive EXCEPT ![v] = FALSE]
  /\ requested' = [requested EXCEPT ![v] = NoValue]
  /\ UNCHANGED <<type_, numeric_, heapData>>

(***************************************************************************)
(* Variant::Equals: different tags are unequal, otherwise the TypeInfo     *)
(* Compare of the two value() pointers decides.                           *)
(***************************************************************************)
Equals(v, w) ==
  /\ type_[v] = type_[w]
  /\ Compare(type_[v], Stored(v).payload, Stored(w).payload) = 0

Init ==
  /\ alive = [v \in Variants |-> FALSE]
  \* type_ and numeric_ are indeterminate until the constructor's Reset
  \* assigns them and are never read before: one representative value.
  /\ type_ = [v \in Variants |-> CHOOSE t \in Types : ~IsVarLen(t)]
  /\ numeric_ = [v \in Variants |-> CHOOSE n \in NumVals : TRUE]
  /\ vstr_ = [v \in Variants |-> EMPTY]
  /\ heapLive = {}
  /\ heapData = [b \in Blocks |-> << >>]
  /\ memErr = {}
  /\ requested = [v \in Variants |-> NoValue]

Next ==
  \/ \E v \in Variants, t \in Types : \E src \in Sources(t) : Construct(v, t, src)
  \/ \E v \in Variants, t \in Types : \E src \in Sources(t) : Reset(v, t, src)
  \/ \E v \in Variants, s \in Strs : ResetString(v, s)
  \/ \E v \in Variants : Destroy(v)

Spec == Init /\ [][Next]_vars

(***************************************************************************)
(* Properties.                                                             *)
(***************************************************************************)
TypeOK ==
  /\ alive \in [Variants -> BOOLEAN]
  /\ type_ \in [Variants -> Types]
  /\ numeric_ \in [Variants -> NumVals]
  /\ vstr_ \in [Variants -> Blocks \cup {EMPTY}]
  /\ heapLive \subseteq Blocks
  /\ heapData \in [Blocks -> Strs \cup {Dangling}]
  /\ memErr \subseteq {"double_free", "use_after_free"}

(* The ownership invariant of spec section 3: a live box of a fixed-width *)
(* type holds no buffer, and a live box's vstr_ is "" or a live heap block *)
(* no other live box points into (Reset deep-copies, Clear forgets).      *)
OwnedBufferInvariant ==
  \A v \in Variants : alive[v] =>
    /\ ~IsVarLen(type_[v]) => vstr_[v] = EMPTY
    /\ vstr_[v] # EMPTY =>
         /\ vstr_[v] \in heapLive
         /\ \A w \in Variants \ {v} : alive[w] => vstr_[w] # vstr_[v]

(* Repeated Reset/destruction cycles never leak: every block new[] handed *)
(* out and not yet deleted is the buffer of some live box.                *)
NoLeak ==
  \A blk \in heapLive : \E v \in Variants : alive[v] /\ vstr_[v] = blk

(* No block is ever deleted twice and no deleted block is ever read, over *)
(* any sequence of constructions, Resets (from any box's value()) and     *)
(* destructions.                                                          *)
MemorySafe == memErr = {}

(* value() of a live box yields what its last Reset (or constructor) was  *)
(* given, as *value was when the call began.                              *)
ValueIsWhatWasSet ==
  \A v \in Variants : alive[v] => Stored(v) = requested[v]

=============================================================================
