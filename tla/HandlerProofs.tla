---------------------------- MODULE HandlerProofs ----------------------------
(***************************************************************************)
(* What the proofs about the services share: how a step of a handler       *)
(* changes the calls in progress, that calls which do not overlap are one  *)
(* at most, and how the size of a set changes with one element.            *)
(***************************************************************************)
EXTENDS Handlers, FiniteSetTheorems, TLAPS

USE ServedIsNat

(* Whatever a service lets its handlers carry, they are records with the   *)
(* fields of NoCall.                                                       *)
Fields   == {"at", "op", "user", "arg", "seen", "todo"}
Shape(r) == r = [f \in Fields |-> r[f]]

Shaped == call = [c \in Calls |-> call[c]] /\ \A c \in Calls : Shape(call[c])

(* While no call has begun before the earlier ones had ended, there is one *)
(* at most.                                                                *)
Alone == calm => \A c, d \in Calls : ~At(c, "idle") /\ ~At(d, "idle") => c = d

-----------------------------------------------------------------------------
(* The steps of a handler.  No other handler changes.                      *)

LEMMA ShapedAtFirst == HandlersInit => Shaped /\ \A c \in Calls : call[c] = NoCall
  BY DEF HandlersInit, Shaped, Shape, Fields, NoCall

(* Any step of one handler: what it becomes is again such a record.        *)
LEMMA CallMoves ==
  ASSUME Shaped, NEW c \in Calls, NEW r, Shape(r), call' = [call EXCEPT ![c] = r]
  PROVE  Shaped' /\ call'[c] = r /\ \A d \in Calls \ {c} : call'[d] = call[d]
  BY DEF Shaped

LEMMA BeginMoves ==
  ASSUME Shaped, NEW c \in Calls, NEW op, NEW u, NEW x, NEW l, Begin(c, op, u, x, l)
  PROVE  /\ Shaped' /\ \A d \in Calls \ {c} : call'[d] = call[d]
         /\ call'[c].at = l /\ call'[c].op = op /\ call'[c].user = u /\ call'[c].arg = x
         /\ call'[c].seen = Nobody /\ call'[c].todo = {}
         /\ At(c, "idle") /\ served < MaxServed /\ served' = served + 1 /\ faults' = faults
         /\ calm' = (calm /\ \A d \in Calls : At(d, "idle"))
<1> DEFINE r == [NoCall EXCEPT !.at = l, !.op = op, !.user = u, !.arg = x]
<1>1. /\ Shape(r) /\ r.at = l /\ r.op = op /\ r.user = u /\ r.arg = x
      /\ r.seen = Nobody /\ r.todo = {}
  BY DEF NoCall, Shape, Fields
<1>2. call' = [call EXCEPT ![c] = r]
  BY DEF Begin
<1> HIDE DEF r
<1>3. Shaped' /\ call'[c] = r /\ \A d \in Calls \ {c} : call'[d] = call[d]
  BY <1>1, <1>2, CallMoves
<1>4. At(c, "idle") /\ served < MaxServed /\ served' = served + 1 /\ faults' = faults
      /\ calm' = (calm /\ \A d \in Calls : At(d, "idle"))
  BY DEF Begin, Quiet
<1> QED
  BY <1>1, <1>3, <1>4

LEMMA GotoMoves ==
  ASSUME Shaped, NEW c \in Calls, NEW l, Goto(c, l)
  PROVE  /\ Shaped' /\ \A d \in Calls \ {c} : call'[d] = call[d]
         /\ call'[c].at = l /\ call'[c].op = call[c].op /\ call'[c].user = call[c].user
         /\ call'[c].arg = call[c].arg /\ call'[c].seen = call[c].seen
         /\ call'[c].todo = call[c].todo
<1> DEFINE r == [call[c] EXCEPT !.at = l]
<1>1. /\ Shape(r) /\ r.at = l /\ r.op = call[c].op /\ r.user = call[c].user
      /\ r.arg = call[c].arg /\ r.seen = call[c].seen /\ r.todo = call[c].todo
  BY DEF Shaped, Shape, Fields
<1>2. call' = [call EXCEPT ![c] = r]
  BY DEF Goto
<1> HIDE DEF r
<1> QED
  BY <1>1, <1>2, CallMoves

LEMMA NoteMoves ==
  ASSUME Shaped, NEW c \in Calls, NEW l, NEW x, Note(c, l, x)
  PROVE  /\ Shaped' /\ \A d \in Calls \ {c} : call'[d] = call[d]
         /\ call'[c].at = l /\ call'[c].op = call[c].op /\ call'[c].user = call[c].user
         /\ call'[c].arg = call[c].arg /\ call'[c].seen = x /\ call'[c].todo = call[c].todo
<1> DEFINE r == [call[c] EXCEPT !.at = l, !.seen = x]
<1>1. /\ Shape(r) /\ r.at = l /\ r.op = call[c].op /\ r.user = call[c].user
      /\ r.arg = call[c].arg /\ r.seen = x /\ r.todo = call[c].todo
  BY DEF Shaped, Shape, Fields
<1>2. call' = [call EXCEPT ![c] = r]
  BY DEF Note
<1> HIDE DEF r
<1> QED
  BY <1>1, <1>2, CallMoves

LEMMA AnswerMoves ==
  ASSUME Shaped, NEW c \in Calls, Answer(c)
  PROVE  /\ Shaped' /\ \A d \in Calls \ {c} : call'[d] = call[d]
         /\ call'[c] = NoCall /\ call'[c].at = "idle"
<1>1. Shape(NoCall) /\ NoCall.at = "idle"
  BY DEF NoCall, Shape, Fields
<1> QED
  BY <1>1, CallMoves DEF Answer

-----------------------------------------------------------------------------
(* Calls that do not overlap.                                              *)

LEMMA AloneAtFirst == HandlersInit => Alone
  BY DEF HandlersInit, Alone, At, NoCall

LEMMA AloneBegins ==
  ASSUME NEW c \in Calls, \A d \in Calls \ {c} : call'[d] = call[d],
         calm' = (calm /\ \A d \in Calls : At(d, "idle"))
  PROVE  Alone'
  BY DEF Alone, At

LEMMA AloneMoves ==
  ASSUME Alone, NEW c \in Calls, \A d \in Calls \ {c} : call'[d] = call[d],
         ~At(c, "idle"), calm' = calm
  PROVE  Alone'
  BY DEF Alone, At

-----------------------------------------------------------------------------
(* The size of a set that changes by one element.                          *)

LEMMA GrowsByOne ==
  ASSUME NEW S, IsFiniteSet(S), NEW x, NEW T, T \subseteq S \cup {x}
  PROVE  /\ IsFiniteSet(T) /\ Cardinality(T) \in Nat /\ Cardinality(S) \in Nat
         /\ Cardinality(T) <= Cardinality(S) + 1
<1>1. /\ IsFiniteSet(S \cup {x})
      /\ Cardinality(S \cup {x}) = IF x \in S THEN Cardinality(S) ELSE Cardinality(S) + 1
  BY FS_AddElement
<1>2. IsFiniteSet(T) /\ Cardinality(T) <= Cardinality(S \cup {x})
  BY <1>1, FS_Subset
<1>3. Cardinality(T) \in Nat /\ Cardinality(S) \in Nat
  BY <1>2, FS_CardinalityType
<1> QED
  BY <1>1, <1>2, <1>3

LEMMA ShrinksByOne ==
  ASSUME NEW S, IsFiniteSet(S), NEW x \in S, NEW T, T \subseteq S \ {x}
  PROVE  /\ IsFiniteSet(T) /\ Cardinality(T) \in Nat /\ Cardinality(S) \in Nat
         /\ Cardinality(T) + 1 <= Cardinality(S)
<1>1. IsFiniteSet(S \ {x}) /\ Cardinality(S \ {x}) = Cardinality(S) - 1
  BY FS_RemoveElement
<1>2. IsFiniteSet(T) /\ Cardinality(T) <= Cardinality(S \ {x})
  BY <1>1, FS_Subset
<1>3. Cardinality(T) \in Nat /\ Cardinality(S) \in Nat
  BY <1>2, FS_CardinalityType
<1> QED
  BY <1>1, <1>2, <1>3

LEMMA Smaller ==
  ASSUME NEW S, IsFiniteSet(S), NEW T, T \subseteq S
  PROVE  /\ IsFiniteSet(T) /\ Cardinality(T) \in Nat /\ Cardinality(S) \in Nat
         /\ Cardinality(T) <= Cardinality(S)
  BY FS_Subset, FS_CardinalityType

(* How many have a thing to do, when one of them moves.                    *)
LEMMA OneDiffers ==
  ASSUME NEW c \in Calls, NEW S \in SUBSET Calls, NEW T \in SUBSET Calls,
         \A d \in Calls \ {c} : d \in S <=> d \in T
  PROVE  /\ Cardinality(S) \in Nat /\ Cardinality(T) \in Nat
         /\ (c \in S <=> c \in T) => Cardinality(T) = Cardinality(S)
         /\ c \in S /\ c \notin T => Cardinality(T) = Cardinality(S) - 1
         /\ c \notin S /\ c \in T => Cardinality(T) = Cardinality(S) + 1
<1>1. IsFiniteSet(S) /\ Cardinality(S) \in Nat /\ Cardinality(T) \in Nat
  BY CallsFinite, FS_Subset, FS_CardinalityType
<1>2. CASE c \in S <=> c \in T
  <2>1. S = T
    BY <1>2
  <2> QED
    BY <1>1, <1>2, <2>1
<1>3. CASE c \in S /\ c \notin T
  <2>1. T = S \ {c}
    BY <1>3
  <2> QED
    BY <1>1, <1>3, <2>1, FS_RemoveElement
<1>4. CASE c \notin S /\ c \in T
  <2>1. T = S \cup {c}
    BY <1>4
  <2> QED
    BY <1>1, <1>4, <2>1, FS_AddElement
<1> QED
  BY <1>2, <1>3, <1>4, <1>1
=============================================================================
