---------------------------- MODULE DeployErrors ----------------------------
(***************************************************************************)
(* The slice deployErrors that the goroutines of Manager.DeployCluster     *)
(* share.  Each failing goroutine executes                                 *)
(*                                                                         *)
(*     deployErrors = append(deployErrors, fmt.Errorf(...))                *)
(*                                                                         *)
(* and nothing orders two of them.  A slice is three machine words, and    *)
(* the compiler turns an append to a variable into loads of the words, a   *)
(* call of growslice when there is no room, and then, in this order, the   *)
(* stores of the capacity, the pointer, the length and LAST the element.   *)
(* Each of these is a step of its own here; memory is sequentially         *)
(* consistent, which is a subset of what a racy Go program may see.        *)
(*                                                                         *)
(* A goroutine appends at most once, so the array growslice gives it is    *)
(* named by the goroutine.  An element is the goroutine whose error it is, *)
(* 0 for an element not stored yet (a nil error).                          *)
(***************************************************************************)
EXTENDS Naturals, Sequences

CONSTANT NGo     \* the number of goroutines: one per volume and filer server

ASSUME NGoAssumption == NGo \in Nat

Goroutine == 1..NGo
NoPtr     == 0            \* the nil pointer
NilError  == 0            \* the nil error, an array element's zero value
Garbage   == NGo + 1      \* a word read beyond the end of an array

VARIABLES
  slice,    \* the words of deployErrors: ptr, len and cap
  array,    \* array[g]: the backing array allocated by g (<<>>: none)
  reg,      \* reg[g]: the slice words g has in its registers
  unread,   \* unread[g]: the words g still has to load
  step,     \* step[g]: the program counter of goroutine g
  fault     \* "none", "segv" (nil dereference) or "wild" (store out of bounds)

errVars == <<slice, array, reg, unread, fault>>

Word       == {"ptr", "len", "cap"}
Header     == [ptr : 0..NGo, len : Nat, cap : Nat]
NilSlice   == [ptr |-> NoPtr, len |-> 0, cap |-> 0]
AppendStep == {"load", "cap", "ptr", "len", "elem"}

ErrInit ==
  /\ slice  = NilSlice
  /\ array  = [g \in Goroutine |-> <<>>]
  /\ reg    = [g \in Goroutine |-> NilSlice]
  /\ unread = [g \in Goroutine |-> Word]
  /\ fault  = "none"

Goto(g, s) == step' = [step EXCEPT ![g] = s]

-----------------------------------------------------------------------------
(* The loads, in any order: the language does not fix one. *)
Load(g) ==
  /\ step[g] = "load"
  /\ \E w \in unread[g] :
       /\ reg'    = [reg EXCEPT ![g] = [@ EXCEPT ![w] = slice[w]]]
       /\ unread' = [unread EXCEPT ![g] = @ \ {w}]
  /\ UNCHANGED <<slice, array, step, fault>>

(* Room for one more element: no allocation, go on to store the length. *)
HasRoom(g) ==
  /\ step[g] = "load" /\ unread[g] = {}
  /\ reg[g].len + 1 <= reg[g].cap
  /\ Goto(g, "len")
  /\ UNCHANGED errVars

(* growslice: at least double, and at least what is needed. *)
NewCap(h) == IF h.len + 1 > 2 * h.cap THEN h.len + 1 ELSE 2 * h.cap

(* What the copy finds at position k of the array p points to. *)
Cell(p, k) == IF k <= Len(array[p]) THEN array[p][k] ELSE Garbage

Grow(g) ==
  LET h == reg[g] IN
  /\ step[g] = "load" /\ unread[g] = {}
  /\ h.len + 1 > h.cap
  /\ IF h.ptr = NoPtr /\ h.len > 0
       THEN /\ fault' = "segv"
            /\ UNCHANGED <<array, reg, step>>
       ELSE /\ array' = [array EXCEPT ![g] =
                 [k \in 1..NewCap(h) |-> IF k <= h.len THEN Cell(h.ptr, k)
                                                       ELSE NilError]]
            /\ reg' = [reg EXCEPT ![g] = [@ EXCEPT !.ptr = g, !.cap = NewCap(h)]]
            /\ Goto(g, "cap")
            /\ UNCHANGED fault
  /\ UNCHANGED <<slice, unread>>

StoreCap(g) ==
  /\ step[g] = "cap"
  /\ slice' = [slice EXCEPT !.cap = reg[g].cap]
  /\ Goto(g, "ptr")
  /\ UNCHANGED <<array, reg, unread, fault>>

StorePtr(g) ==
  /\ step[g] = "ptr"
  /\ slice' = [slice EXCEPT !.ptr = reg[g].ptr]
  /\ Goto(g, "len")
  /\ UNCHANGED <<array, reg, unread, fault>>

StoreLen(g) ==
  /\ step[g] = "len"
  /\ slice' = [slice EXCEPT !.len = reg[g].len + 1]
  /\ Goto(g, "elem")
  /\ UNCHANGED <<array, reg, unread, fault>>

(* Mutant: the error names the server of the last loop turn, as with a     *)
(* goroutine that captures the loop variable.                              *)
StoreElemOfLast(g) ==
  LET p == reg[g].ptr
      k == reg[g].len + 1 IN
  /\ step[g] = "elem"
  /\ p # NoPtr /\ k <= Len(array[p])
  /\ array' = [array EXCEPT ![p] = [@ EXCEPT ![k] = NGo]]
  /\ Goto(g, "exit")
  /\ UNCHANGED <<slice, reg, unread, fault>>

(* The element goes through the pointer in the register.  What a store     *)
(* beyond the array hits is not followed any further.                      *)
StoreElem(g) ==
  LET p == reg[g].ptr
      k == reg[g].len + 1 IN
  /\ step[g] = "elem"
  /\ IF p # NoPtr /\ k <= Len(array[p])
       THEN /\ array' = [array EXCEPT ![p] = [@ EXCEPT ![k] = g]]
            /\ Goto(g, "exit")
            /\ UNCHANGED fault
       ELSE /\ fault' = IF p = NoPtr THEN "segv" ELSE "wild"
            /\ UNCHANGED <<array, step>>
  /\ UNCHANGED <<slice, reg, unread>>

AppendError(g) ==
  \/ Load(g) \/ HasRoom(g) \/ Grow(g)
  \/ StoreCap(g) \/ StorePtr(g) \/ StoreLen(g) \/ StoreElem(g)

-----------------------------------------------------------------------------
StepName == {"idle", "session", "exit", "done"} \union AppendStep

ErrTypeOK ==
  /\ slice \in Header
  /\ array \in [Goroutine -> Seq(0..NGo + 1)]
  /\ reg \in [Goroutine -> Header]
  /\ unread \in [Goroutine -> SUBSET Word]
  /\ step \in [Goroutine -> StepName]
  /\ fault \in {"none", "segv", "wild"}

=============================================================================
