------------------------ MODULE HostProtocols_proofs ------------------------
(***************************************************************************)
(* The host's protocols: merge blocks under construction, modules loaded   *)
(* and unloaded, exports declared and defined.  In each the hazard is the  *)
(* order of the calls, and the proofs are for calls in any order, of any   *)
(* number of parameters, predecessors, modules and exports.  At the end    *)
(* the structs the host reifies, of any number of fields.                  *)
(***************************************************************************)
EXTENDS BlockProtocol, ModuleLifecycle, ExportPlan, StructLayout, FiniteSetTheorems, FunctionTheorems,
        SequenceTheorems, SetInduction, TLAPS

(***************************************************************************)
(* Merge blocks.  An edge waits in pending until there are phis, and is    *)
(* listed in every phi it reaches from then on.  Lists says so of one      *)
(* sequence: it has the images of the given branches, each once.           *)
(***************************************************************************)
MergeBranch ==
  [block : Preds, via : {"branch_from_here", "begin", "remember"}, entries : Nat]

\* What a branch hands over, and what it brings to the k-th phi.
EdgeOf == [b \in MergeBranch |-> Edge(Under(b), b.block, call.arity)]
ValueOf(k) == [b \in MergeBranch |-> [block |-> Under(b), value |-> <<b.block, k>>]]
EdgesTaken == {EdgeOf[b] : b \in MergeBranch}
ValuesTaken == {[block |-> Under(b), value |-> <<b.block, k>>] : b \in MergeBranch, k \in 1 .. call.arity}

Lists(s, S, f) ==
  Len(s) = Cardinality(S) /\ {s[i] : i \in DOMAIN s} = {f[b] : b \in S}

\* The blocks that branch to the merge block, and those of them that did before it had phis.
Predecessors == {b.block : b \in memory.branches}
EarlyBranches == {b \in memory.branches : b.entries = 0}

\* The parts of the function and of the builder, which a refused call keeps too.
ProtocolShape ==
  /\ call.fn \in Builders /\ call.arity \in Nat
  /\ memory = [branches |-> memory.branches, phis |-> memory.phis]
  /\ env = [pending |-> env.pending, error |-> env.error]
  /\ env.error \in {"none", "ValueError", "RuntimeError"}
  /\ memory.phis \in Seq([1 .. call.arity -> Seq(ValuesTaken)])
  /\ Len(memory.phis) <= MaxEntries
  /\ \A b \in memory.branches : b \in MergeBranch /\ b.entries <= Len(memory.phis)

\* A finished exit goes on keeping edges and a join without parameters always does: what they
\* keep is delivered nowhere.
StillDelivers == call.arity # 0 /\ (call.fn = "shared_exit" => memory.phis = <<>>)

ProtocolInv ==
  /\ ProtocolShape
  /\ env.error = "none" =>
       /\ IsFiniteSet(memory.branches) /\ IsFiniteSet(Predecessors)
       /\ Cardinality(Predecessors) = Cardinality(memory.branches)
       /\ env.pending \in Seq(EdgesTaken)
       /\ StillDelivers => Lists(env.pending, EarlyBranches, EdgeOf)
       /\ \A e \in 1 .. Len(memory.phis), k \in 1 .. call.arity :
            Lists(memory.phis[e][k], Reaching(e), ValueOf(k))

(***************************************************************************)
(* Sequences of edges                                                      *)
(***************************************************************************)
\* No edge lists no branch.
LEMMA ListsNothing == ASSUME NEW f PROVE Lists(<<>>, {}, f)
<1>1. Cardinality({}) = 0
  BY FS_EmptySet
<1> QED BY <1>1 DEF Lists

\* The image of one branch more lists that branch too.
LEMMA ListsMore ==
  ASSUME NEW T, NEW s \in Seq(T), NEW S, IsFiniteSet(S), NEW f, Lists(s, S, f),
         NEW b, b \notin S, f[b] \in T
  PROVE  Lists(Append(s, f[b]), S \cup {b}, f)
<1> DEFINE t == Append(s, f[b])
<1>1. Cardinality(S \cup {b}) = Cardinality(S) + 1
  BY FS_AddElement
<1>2. /\ Len(t) = Len(s) + 1 /\ Len(s) \in Nat
      /\ DOMAIN t = 1 .. Len(s) + 1 /\ DOMAIN s = 1 .. Len(s)
      /\ t[Len(s) + 1] = f[b]
      /\ \A i \in 1 .. Len(s) : t[i] = s[i]
  OBVIOUS
<1>3. {t[i] : i \in DOMAIN t} = {s[i] : i \in DOMAIN s} \cup {f[b]}
  <2> HIDE DEF t
  <2>1. \A i : i \in DOMAIN t <=> i \in DOMAIN s \/ i = Len(s) + 1
    BY <1>2
  <2> QED BY <1>2, <2>1
<1>4. {f[c] : c \in S \cup {b}} = {f[c] : c \in S} \cup {f[b]}
  OBVIOUS
<1> HIDE DEF t
<1> QED BY <1>1, <1>2, <1>3, <1>4 DEF Lists, t

\* The parts of an edge that reach the k-th phi.
LEMMA EdgeFields ==
  ASSUME NEW b \in MergeBranch, NEW k \in 1 .. call.arity
  PROVE  /\ EdgeOf[b].block = Under(b) /\ EdgeOf[b].values[k] = <<b.block, k>>
         /\ ValueOf(k)[b] = [block |-> EdgeOf[b].block, value |-> EdgeOf[b].values[k]]
         /\ ValueOf(k)[b] \in ValuesTaken
<1>1. EdgeOf[b] = [block |-> Under(b), values |-> Values(b.block, call.arity)]
  BY DEF EdgeOf, Edge
<1>2. \A p, n : \A i \in 1 .. n : Values(p, n)[i] = <<p, i>>
  BY Zenon DEF Values
<1>3. ValueOf(k)[b] = [block |-> Under(b), value |-> <<b.block, k>>]
  BY DEF ValueOf
<1> QED BY <1>1, <1>2, <1>3 DEF ValuesTaken

\* Delivering the pending edges gives every phi the value of each branch that handed one over.
LEMMA DeliveredLists ==
  ASSUME NEW S, \A b \in S : b \in MergeBranch, env.pending \in Seq(EdgesTaken),
         Lists(env.pending, S, EdgeOf), NEW k \in 1 .. call.arity
  PROVE  Lists(Delivered[k], S, ValueOf(k))
<1> DEFINE s == env.pending
           d == Delivered[k]
<1>1. /\ DOMAIN d = DOMAIN s /\ DOMAIN s = 1 .. Len(s) /\ Len(s) \in Nat
      /\ \A i \in DOMAIN s : d[i] = [block |-> s[i].block, value |-> s[i].values[k]]
  <2>1. d = [i \in DOMAIN s |-> [block |-> s[i].block, value |-> s[i].values[k]]]
    BY Zenon DEF Delivered
  <2>2. DOMAIN s = 1 .. Len(s) /\ Len(s) \in Nat
    OBVIOUS
  <2> HIDE DEF s, d
  <2> QED BY <2>1, <2>2
<1>2. Len(d) = Len(s)
  BY <1>1
<1>3. \A i \in DOMAIN s : \E b \in S : s[i] = EdgeOf[b]
  BY DEF Lists
<1>4. \A b \in S : \E i \in DOMAIN s : s[i] = EdgeOf[b]
  BY DEF Lists
<1> HIDE DEF s, d
<1>5. ASSUME NEW i \in DOMAIN d
      PROVE  \E b \in S : d[i] = ValueOf(k)[b]
  <2>1. PICK b \in S : s[i] = EdgeOf[b]
    BY <1>1, <1>3, <1>5
  <2>2. d[i] = ValueOf(k)[b]
    BY <1>1, <1>5, <2>1, EdgeFields
  <2> QED BY <2>2
<1>6. ASSUME NEW b \in S
      PROVE  \E i \in DOMAIN d : d[i] = ValueOf(k)[b]
  <2>1. PICK i \in DOMAIN s : s[i] = EdgeOf[b]
    BY <1>4
  <2>2. i \in DOMAIN d /\ d[i] = ValueOf(k)[b]
    BY <1>1, <2>1, EdgeFields
  <2> QED BY <2>2
<1>7. {d[i] : i \in DOMAIN d} = {ValueOf(k)[b] : b \in S}
  BY <1>5, <1>6
<1>8. Len(s) = Cardinality(S)
  BY DEF Lists, s
<1> QED BY <1>2, <1>7, <1>8 DEF Lists, d

\* The parts of the function under construction.
LEMMA FunctionParts ==
  ASSUME NEW m, NEW branches, NEW phis, m = [branches |-> branches, phis |-> phis]
  PROVE  /\ m.branches = branches /\ m.phis = phis
         /\ m = [branches |-> m.branches, phis |-> m.phis]
OBVIOUS

\* A function on the first numbers is a sequence.
LEMMA FunctionIsSequence ==
  ASSUME NEW V, NEW n \in Nat, NEW f \in [1 .. n -> V]
  PROVE  f \in Seq(V)
OBVIOUS

\* A function is into a set that has its values.
LEMMA FunctionInto ==
  ASSUME NEW V, NEW S, NEW f, f = [k \in S |-> f[k]], \A k \in S : f[k] \in V
  PROVE  f \in [S -> V]
OBVIOUS

\* The phis are built of the values taken.
LEMMA DeliveredType ==
  ASSUME env.pending \in Seq(EdgesTaken)
  PROVE  Delivered \in [1 .. call.arity -> Seq(ValuesTaken)]
<1> DEFINE s == env.pending
<1>1. s \in [1 .. Len(s) -> EdgesTaken] /\ Len(s) \in Nat
  OBVIOUS
<1>2. ASSUME NEW k \in 1 .. call.arity
      PROVE  Delivered[k] \in Seq(ValuesTaken)
  <2> DEFINE value(i) == [block |-> s[i].block, value |-> s[i].values[k]]
  <2>1. Delivered[k] = [i \in 1 .. Len(s) |-> value(i)]
    <3>1. Delivered[k] = [i \in DOMAIN s |-> value(i)]
      BY Zenon DEF Delivered
    <3>2. DOMAIN s = 1 .. Len(s)
      BY <1>1
    <3> QED BY <3>1, <3>2, Zenon
  <2>2. ASSUME NEW i \in 1 .. Len(s)
        PROVE  value(i) \in ValuesTaken
    <3>1. PICK b \in MergeBranch : s[i] = EdgeOf[b]
      BY <1>1 DEF EdgesTaken
    <3> QED BY <3>1, EdgeFields
  <2>3. Delivered[k] \in [1 .. Len(s) -> ValuesTaken]
    <3> HIDE DEF s, value
    <3> QED BY <2>1, <2>2
  <2>4. Len(s) \in Nat
    BY <1>1
  <2> HIDE DEF s
  <2> QED BY <2>3, <2>4, FunctionIsSequence, Zenon
<1>3. Delivered = [k \in 1 .. call.arity |-> Delivered[k]]
  BY Zenon DEF Delivered
<1> QED BY <1>2, <1>3, FunctionInto, Zenon

(***************************************************************************)
(* The invariant                                                           *)
(***************************************************************************)
\* A builder begins with no edge and no phi (Join.__init__, SharedExit.__init__).
LEMMA InitInvariant == ProtocolInit => ProtocolInv
<1> SUFFICES ASSUME ProtocolInit PROVE ProtocolInv
  OBVIOUS
<1>1. /\ call.fn \in Builders /\ call.arity \in Nat
      /\ env = [pending |-> <<>>, error |-> "none"]
      /\ memory = [branches |-> {}, phis |-> <<>>]
  BY DEF ProtocolInit, Builders
<1>2. memory.branches = {} /\ memory.phis = <<>> /\ env.pending = <<>> /\ env.error = "none"
  BY <1>1
<1>3. Len(<<>>) = 0 /\ \A T : <<>> \in Seq(T)
  OBVIOUS
<1>4. ProtocolShape
  BY <1>1, <1>2, <1>3, MaxEntriesAssumption DEF ProtocolShape
<1>5. IsFiniteSet({}) /\ Predecessors = {} /\ EarlyBranches = {}
  BY <1>2, FS_EmptySet DEF Predecessors, EarlyBranches
<1>6. 1 .. Len(memory.phis) = {}
  BY <1>2, <1>3
<1> QED BY <1>2, <1>3, <1>4, <1>5, <1>6, ListsNothing DEF ProtocolInv

\* A refused call ends the building: only the parts keep their shape.
LEMMA RefusedInvariant ==
  ASSUME ProtocolInv, NEW error \in {"ValueError", "RuntimeError"}, raise(error), call' = call,
         memory' = memory \/ \E pred \in Unterminated,
                               via \in {"branch_from_here", "begin", "remember"} :
                               memory' = Branches(pred, via)
  PROVE  ProtocolInv'
<1>0. ProtocolShape
  BY DEF ProtocolInv
<1>1. env' = [pending |-> env.pending, error |-> error]
  BY <1>0 DEF raise, ProtocolShape
<1>2. env'.error = error /\ env' = [pending |-> env'.pending, error |-> env'.error]
  BY <1>1
<1>3. /\ memory' = [branches |-> memory'.branches, phis |-> memory'.phis]
      /\ memory'.phis = memory.phis
      /\ \A b \in memory'.branches : b \in MergeBranch /\ b.entries <= Len(memory.phis)
  <2>1. CASE memory' = memory
    BY <1>0, <2>1 DEF ProtocolShape
  <2>2. CASE memory' # memory
    <3>1. PICK pred \in Unterminated, via \in {"branch_from_here", "begin", "remember"} :
            memory' = Branches(pred, via)
      BY <2>2
    <3> DEFINE b == [block |-> pred, via |-> via, entries |-> Len(memory.phis)]
    <3>2. memory' = [branches |-> memory.branches \cup {b}, phis |-> memory.phis]
      BY <1>0, <3>1 DEF Branches, ProtocolShape
    <3>3. Len(memory.phis) \in Nat /\ pred \in Preds
      BY <1>0 DEF ProtocolShape, Unterminated
    <3>4. b \in MergeBranch /\ b.entries <= Len(memory.phis)
      BY <3>3 DEF MergeBranch
    <3> QED BY <1>0, <3>2, <3>4 DEF ProtocolShape
  <2> QED BY <2>1, <2>2
<1>4. ValuesTaken' = ValuesTaken
  BY DEF ValuesTaken, Under
<1>5. ProtocolShape'
  BY <1>0, <1>2, <1>3, <1>4 DEF ProtocolShape
<1> QED BY <1>2, <1>5 DEF ProtocolInv

\* A block that ends in a branch to the merge block is one more of those that do, and it reaches
\* the phis created last, unless it is remembered too late.
LEMMA BranchTaken ==
  ASSUME ProtocolInv, env.error = "none", call' = call,
         NEW pred \in Unterminated, NEW via \in {"branch_from_here", "begin", "remember"},
         NEW b, b = [block |-> pred, via |-> via, entries |-> Len(memory.phis)],
         memory'.branches = memory.branches \cup {b}
  PROVE  /\ b \in MergeBranch /\ b \notin memory.branches /\ b.entries = Len(memory.phis)
         /\ IsFiniteSet(memory'.branches) /\ IsFiniteSet(Predecessors')
         /\ Cardinality(Predecessors') = Cardinality(memory'.branches)
         /\ EarlyBranches' = IF memory.phis = <<>> THEN EarlyBranches \cup {b} ELSE EarlyBranches
         /\ \A e \in 1 .. Len(memory.phis) :
              Reaching(e)' = IF e = Len(memory.phis) /\ via # "remember"
                             THEN Reaching(e) \cup {b} ELSE Reaching(e)
<1>1. /\ IsFiniteSet(memory.branches) /\ IsFiniteSet(Predecessors)
      /\ Cardinality(Predecessors) = Cardinality(memory.branches)
      /\ Len(memory.phis) \in Nat
      /\ memory.phis = <<>> <=> Len(memory.phis) = 0
  BY DEF ProtocolInv, ProtocolShape
<1>2. pred \in Preds /\ pred \notin Predecessors
  BY DEF Unterminated, Predecessors
<1>3. b.block = pred /\ b.via = via /\ b.entries = Len(memory.phis) /\ b \in MergeBranch
  BY <1>1, <1>2 DEF MergeBranch
<1>4. b \notin memory.branches
  BY <1>2, <1>3 DEF Predecessors
<1>5. Predecessors' = Predecessors \cup {pred}
  BY <1>3 DEF Predecessors
<1>6. /\ IsFiniteSet(memory.branches \cup {b}) /\ IsFiniteSet(Predecessors \cup {pred})
      /\ Cardinality(memory.branches \cup {b}) = Cardinality(memory.branches) + 1
      /\ Cardinality(Predecessors \cup {pred}) = Cardinality(Predecessors) + 1
  BY <1>1, <1>2, <1>4, FS_AddElement
<1>7. EarlyBranches' = IF memory.phis = <<>> THEN EarlyBranches \cup {b} ELSE EarlyBranches
  BY <1>1, <1>3 DEF EarlyBranches
<1>8. ASSUME NEW e \in 1 .. Len(memory.phis)
      PROVE  Reaching(e)' = IF e = Len(memory.phis) /\ via # "remember"
                            THEN Reaching(e) \cup {b} ELSE Reaching(e)
  <2>1. b.entries # 0 /\ (b.entries = e <=> e = Len(memory.phis))
    BY <1>1, <1>3
  <2> QED BY <1>3, <2>1 DEF Reaching
<1> QED BY <1>1, <1>3, <1>4, <1>5, <1>6, <1>7, <1>8

\* The edge of a branch.
LEMMA EdgeTaken ==
  ASSUME NEW b \in MergeBranch
  PROVE  Edge(Under(b), b.block, call.arity) = EdgeOf[b] /\ EdgeOf[b] \in EdgesTaken
BY DEF EdgeOf, EdgesTaken

\* An edge is kept (Join.add_incoming before __enter__, SharedExit.remember): it is listed among
\* the pending ones, if those are ever to be delivered.
LEMMA PendingInvariant ==
  ASSUME ProtocolInv, env.error = "none", call' = call,
         NEW pred \in Unterminated, NEW via \in {"branch_from_here", "begin", "remember"},
         memory.phis = <<>> \/ call.arity = 0 \/ (call.fn = "shared_exit" /\ via = "remember"),
         NEW b, b = [block |-> pred, via |-> via, entries |-> Len(memory.phis)],
         memory' = Branches(pred, via),
         env' = [env EXCEPT !.pending = Append(@, EdgeOf[b])]
  PROVE  ProtocolInv'
<1>0. ProtocolShape
  BY DEF ProtocolInv
<1>1. /\ memory' = [branches |-> memory.branches \cup {b}, phis |-> memory.phis]
      /\ env' = [pending |-> Append(env.pending, EdgeOf[b]), error |-> "none"]
  BY <1>0 DEF Branches, ProtocolShape
<1>2. /\ memory'.branches = memory.branches \cup {b} /\ memory'.phis = memory.phis
      /\ memory' = [branches |-> memory'.branches, phis |-> memory'.phis]
  BY <1>1
<1>p. /\ env'.pending = Append(env.pending, EdgeOf[b]) /\ env'.error = "none"
      /\ env' = [pending |-> env'.pending, error |-> env'.error]
  BY <1>1
<1>3. /\ b \in MergeBranch /\ b \notin memory.branches /\ b.entries = Len(memory.phis)
      /\ IsFiniteSet(memory'.branches) /\ IsFiniteSet(Predecessors')
      /\ Cardinality(Predecessors') = Cardinality(memory'.branches)
      /\ EarlyBranches' = IF memory.phis = <<>> THEN EarlyBranches \cup {b} ELSE EarlyBranches
      /\ \A e \in 1 .. Len(memory.phis) :
           Reaching(e)' = IF e = Len(memory.phis) /\ via # "remember"
                          THEN Reaching(e) \cup {b} ELSE Reaching(e)
  <2>1. memory'.branches = memory.branches \cup {b}
    BY <1>2
  <2> QED BY <2>1, BranchTaken
<1>4. /\ EdgeOf' = EdgeOf /\ EdgesTaken' = EdgesTaken /\ ValuesTaken' = ValuesTaken
      /\ \A k : ValueOf(k)' = ValueOf(k)
  BY DEF EdgeOf, EdgesTaken, ValuesTaken, ValueOf, Under
<1>5. env.pending \in Seq(EdgesTaken) /\ EdgeOf[b] \in EdgesTaken
  BY <1>3, EdgeTaken DEF ProtocolInv
<1>6. env'.pending \in Seq(EdgesTaken')
  BY <1>p, <1>4, <1>5
<1>7. StillDelivers' => Lists(env'.pending, EarlyBranches', EdgeOf')
  <2>1. SUFFICES ASSUME StillDelivers'
                 PROVE  Lists(env'.pending, EarlyBranches', EdgeOf')
    OBVIOUS
  <2>2. memory.phis = <<>> /\ StillDelivers
    BY <1>2, <2>1 DEF StillDelivers
  <2>3. Lists(env.pending, EarlyBranches, EdgeOf) /\ IsFiniteSet(memory.branches)
    BY <2>2 DEF ProtocolInv
  <2>4. IsFiniteSet(EarlyBranches) /\ b \notin EarlyBranches
    BY <1>3, <2>3, FS_Subset DEF EarlyBranches
  <2>5. Lists(Append(env.pending, EdgeOf[b]), EarlyBranches \cup {b}, EdgeOf)
    BY <1>5, <2>3, <2>4, ListsMore
  <2> QED BY <1>p, <1>3, <1>4, <2>2, <2>5
<1>8. ASSUME NEW e \in 1 .. Len(memory.phis), NEW k \in 1 .. call.arity
      PROVE  Lists(memory.phis[e][k], Reaching(e)', ValueOf(k)')
  <2>1. memory.phis # <<>> /\ call.arity # 0
    BY <1>0, <1>8 DEF ProtocolShape
  <2>2. Reaching(e)' = Reaching(e)
    BY <1>3, <2>1
  <2>3. Lists(memory.phis[e][k], Reaching(e), ValueOf(k))
    BY DEF ProtocolInv
  <2> QED BY <1>4, <2>2, <2>3
<1>9. ProtocolShape'
  <2>1. \A c \in memory'.branches : c \in MergeBranch /\ c.entries <= Len(memory'.phis)
    BY <1>0, <1>2, <1>3 DEF ProtocolShape
  <2> QED BY <1>0, <1>2, <1>p, <1>4, <2>1 DEF ProtocolShape
<1> QED BY <1>2, <1>p, <1>3, <1>6, <1>7, <1>8, <1>9 DEF ProtocolInv

\* Adding an edge to the phis created last changes each of them, and no others.
LEMMA LastPhis ==
  ASSUME ProtocolShape, memory.phis # <<>>, NEW b \in MergeBranch, NEW phis,
         phis = to_last_phis(memory.phis, EdgeOf[b])
  PROVE  /\ phis \in Seq([1 .. call.arity -> Seq(ValuesTaken)]) /\ Len(phis) = Len(memory.phis)
         /\ \A e \in 1 .. Len(phis), k \in 1 .. call.arity :
              phis[e][k] = IF e = Len(phis) THEN Append(memory.phis[e][k], ValueOf(k)[b])
                           ELSE memory.phis[e][k]
<1> DEFINE G == [1 .. call.arity -> Seq(ValuesTaken)]
           g == with_incoming(memory.phis[Len(memory.phis)], EdgeOf[b])
           last == Len(memory.phis)
<1>1. memory.phis \in Seq(G) /\ last \in Nat /\ last \in 1 .. last
  BY DEF ProtocolShape
<1>2. memory.phis[last] \in G
  BY <1>1
<1>3. ASSUME NEW k \in 1 .. call.arity
      PROVE  g[k] = Append(memory.phis[last][k], ValueOf(k)[b]) /\ g[k] \in Seq(ValuesTaken)
  <2>1. DOMAIN memory.phis[last] = 1 .. call.arity /\ memory.phis[last][k] \in Seq(ValuesTaken)
    BY <1>2
  <2>2. g[k] = Append(memory.phis[last][k], [block |-> EdgeOf[b].block, value |-> EdgeOf[b].values[k]])
    BY <2>1, Zenon DEF with_incoming
  <2>3. g[k] = Append(memory.phis[last][k], ValueOf(k)[b]) /\ ValueOf(k)[b] \in ValuesTaken
    BY <2>2, EdgeFields
  <2> HIDE DEF g, last
  <2> QED BY <2>1, <2>3
<1>4. g \in G
  <2>1. DOMAIN g = 1 .. call.arity /\ g = [k \in DOMAIN g |-> g[k]]
    BY <1>2 DEF with_incoming
  <2> HIDE DEF g
  <2> QED BY <1>3, <2>1
<1>5. phis = [memory.phis EXCEPT ![last] = g]
  BY DEF to_last_phis
<1> HIDE DEF G, g
<1>6. phis \in Seq(G) /\ Len(phis) = last /\ phis[last] = g
      /\ \A e \in 1 .. last : e # last => phis[e] = memory.phis[e]
  BY <1>1, <1>4, <1>5
<1> QED BY <1>1, <1>3, <1>6 DEF G

\* An edge that finds phis is listed in each of those created last (Join._add_incoming_now).
LEMMA DirectInvariant ==
  ASSUME ProtocolInv, env.error = "none", call' = call, env' = env, memory.phis # <<>>,
         call.fn # "shared_exit",
         NEW pred \in Unterminated, NEW via \in {"branch_from_here", "begin"},
         NEW b, b = [block |-> pred, via |-> via, entries |-> Len(memory.phis)],
         memory' = [Branches(pred, via) EXCEPT !.phis = to_last_phis(@, EdgeOf[b])]
  PROVE  ProtocolInv'
<1>0. ProtocolShape
  BY DEF ProtocolInv
<1> DEFINE phis == to_last_phis(memory.phis, EdgeOf[b])
<1>1. memory' = [branches |-> memory.branches \cup {b}, phis |-> phis]
  BY <1>0 DEF Branches, ProtocolShape
<1> HIDE DEF phis
<1>2. /\ memory'.branches = memory.branches \cup {b} /\ memory'.phis = phis
      /\ memory' = [branches |-> memory'.branches, phis |-> memory'.phis]
  <2>1. PICK branches, after :
          branches = memory.branches \cup {b} /\ after = phis
    OBVIOUS
  <2>2. memory' = [branches |-> branches, phis |-> after]
    BY <1>1, <2>1, Zenon
  <2>3. /\ memory'.branches = branches /\ memory'.phis = after
        /\ memory' = [branches |-> memory'.branches, phis |-> memory'.phis]
    BY <2>2, FunctionParts, Zenon
  <2> QED BY <2>1, <2>3, Zenon
<1>3. /\ b \in MergeBranch /\ b \notin memory.branches /\ b.entries = Len(memory.phis)
      /\ IsFiniteSet(memory'.branches) /\ IsFiniteSet(Predecessors')
      /\ Cardinality(Predecessors') = Cardinality(memory'.branches)
      /\ EarlyBranches' = IF memory.phis = <<>> THEN EarlyBranches \cup {b} ELSE EarlyBranches
      /\ \A e \in 1 .. Len(memory.phis) :
           Reaching(e)' = IF e = Len(memory.phis) /\ via # "remember"
                          THEN Reaching(e) \cup {b} ELSE Reaching(e)
  BY <1>2, BranchTaken
<1>4. /\ EdgeOf' = EdgeOf /\ EdgesTaken' = EdgesTaken /\ ValuesTaken' = ValuesTaken
      /\ \A k : ValueOf(k)' = ValueOf(k)
  BY DEF EdgeOf, EdgesTaken, ValuesTaken, ValueOf, Under
<1>5. /\ phis \in Seq([1 .. call.arity -> Seq(ValuesTaken)]) /\ Len(phis) = Len(memory.phis)
      /\ \A e \in 1 .. Len(phis), k \in 1 .. call.arity :
           phis[e][k] = IF e = Len(phis) THEN Append(memory.phis[e][k], ValueOf(k)[b])
                        ELSE memory.phis[e][k]
  BY <1>0, <1>3, LastPhis DEF phis
<1>6. StillDelivers' => Lists(env'.pending, EarlyBranches', EdgeOf')
  <2>1. StillDelivers' => StillDelivers
    BY DEF StillDelivers
  <2>2. EarlyBranches' = EarlyBranches
    BY <1>3
  <2> QED BY <1>4, <2>1, <2>2 DEF ProtocolInv
<1>7. ASSUME NEW e \in 1 .. Len(phis), NEW k \in 1 .. call.arity
      PROVE  Lists(phis[e][k], Reaching(e)', ValueOf(k)')
  <2>1. /\ Lists(memory.phis[e][k], Reaching(e), ValueOf(k))
        /\ IsFiniteSet(memory.branches)
    BY <1>5, <1>7 DEF ProtocolInv
  <2>2. CASE e # Len(phis)
    <3>1. Reaching(e)' = Reaching(e) /\ phis[e][k] = memory.phis[e][k]
      BY <1>3, <1>5, <1>7, <2>2
    <3> QED BY <1>4, <2>1, <3>1
  <2>3. CASE e = Len(phis)
    <3>1. /\ Reaching(e)' = Reaching(e) \cup {b}
          /\ phis[e][k] = Append(memory.phis[e][k], ValueOf(k)[b])
      BY <1>3, <1>5, <1>7, <2>3
    <3>2. IsFiniteSet(Reaching(e)) /\ b \notin Reaching(e)
      BY <1>3, <2>1, FS_Subset DEF Reaching
    <3>3. memory.phis[e][k] \in Seq(ValuesTaken) /\ ValueOf(k)[b] \in ValuesTaken
      <4>1. memory.phis[e] \in [1 .. call.arity -> Seq(ValuesTaken)]
        <5>1. memory.phis \in Seq([1 .. call.arity -> Seq(ValuesTaken)])
          BY <1>0 DEF ProtocolShape
        <5>2. e \in 1 .. Len(memory.phis)
          BY <1>5, <1>7
        <5> QED BY <5>1, <5>2
      <4> QED BY <1>3, <4>1, EdgeFields
    <3>4. Lists(Append(memory.phis[e][k], ValueOf(k)[b]), Reaching(e) \cup {b}, ValueOf(k))
      BY <2>1, <3>2, <3>3, ListsMore
    <3> QED BY <1>4, <3>1, <3>4
  <2> QED BY <2>2, <2>3
<1>8. ProtocolShape'
  <2>1. \A c \in memory'.branches : c \in MergeBranch /\ c.entries <= Len(memory'.phis)
    BY <1>0, <1>2, <1>3, <1>5 DEF ProtocolShape
  <2> QED BY <1>0, <1>2, <1>4, <1>5, <2>1 DEF ProtocolShape
<1> QED BY <1>2, <1>3, <1>4, <1>6, <1>7, <1>8 DEF ProtocolInv

\* Entering the join, or finishing the exit, creates phis and delivers what waits.
LEMMA DeliverInvariant ==
  ASSUME ProtocolInv, env.error = "none", call' = call, env' = env, memory' = NewPhis,
         call.fn = "shared_exit" => memory.phis = <<>>, Len(memory.phis) < MaxEntries
  PROVE  ProtocolInv'
<1>0. ProtocolShape
  BY DEF ProtocolInv
<1> DEFINE phis == Append(memory.phis, Delivered)
           last == Len(memory.phis) + 1
<1>1. memory' = [branches |-> memory.branches, phis |-> phis]
  BY <1>0 DEF NewPhis, ProtocolShape
<1>2. /\ memory'.branches = memory.branches /\ memory'.phis = phis
      /\ memory' = [branches |-> memory'.branches, phis |-> memory'.phis]
  BY <1>1
<1>3. /\ EdgeOf' = EdgeOf /\ EdgesTaken' = EdgesTaken /\ ValuesTaken' = ValuesTaken
      /\ \A k : ValueOf(k)' = ValueOf(k)
  BY DEF EdgeOf, EdgesTaken, ValuesTaken, ValueOf, Under
<1>4. /\ memory.phis \in Seq([1 .. call.arity -> Seq(ValuesTaken)]) /\ Len(memory.phis) \in Nat
      /\ \A b \in memory.branches : b \in MergeBranch /\ b.entries \in Nat /\ b.entries <= Len(memory.phis)
  BY <1>0 DEF ProtocolShape, MergeBranch
<1>5. Delivered \in [1 .. call.arity -> Seq(ValuesTaken)]
  BY DeliveredType DEF ProtocolInv
<1>6. /\ phis \in Seq([1 .. call.arity -> Seq(ValuesTaken)]) /\ Len(phis) = last
      /\ phis[last] = Delivered /\ \A e \in 1 .. Len(memory.phis) : phis[e] = memory.phis[e]
  BY <1>4, <1>5
<1> HIDE DEF phis
<1>7. EarlyBranches' = EarlyBranches /\ Predecessors' = Predecessors /\ \A e : Reaching(e)' = Reaching(e)
  BY <1>2 DEF EarlyBranches, Predecessors, Reaching
<1>8. Reaching(last) = EarlyBranches
  BY <1>4 DEF Reaching, EarlyBranches
<1>9. ASSUME NEW e \in 1 .. Len(phis), NEW k \in 1 .. call.arity
      PROVE  Lists(phis[e][k], Reaching(e)', ValueOf(k)')
  <2>1. CASE e = last
    <3>1. call.arity # 0
      BY <1>0, <1>9 DEF ProtocolShape
    <3>2. Lists(env.pending, EarlyBranches, EdgeOf) /\ env.pending \in Seq(EdgesTaken)
      BY <3>1 DEF ProtocolInv, StillDelivers
    <3>3. \A b \in EarlyBranches : b \in MergeBranch
      BY <1>4 DEF EarlyBranches
    <3>4. Lists(Delivered[k], EarlyBranches, ValueOf(k))
      BY <3>2, <3>3, DeliveredLists
    <3> QED BY <1>3, <1>6, <1>7, <1>8, <2>1, <3>4
  <2>2. CASE e \in 1 .. Len(memory.phis)
    <3>1. Lists(memory.phis[e][k], Reaching(e), ValueOf(k))
      BY <2>2 DEF ProtocolInv
    <3> QED BY <1>3, <1>6, <1>7, <2>2, <3>1
  <2>3. e = last \/ e \in 1 .. Len(memory.phis)
    BY <1>4, <1>6
  <2> QED BY <2>1, <2>2, <2>3
<1>10. phis # <<>>
  BY <1>4, <1>6
<1>11. StillDelivers' => StillDelivers
  BY <1>2, <1>10 DEF StillDelivers
<1>12. ProtocolShape'
  <2>1. \A b \in memory'.branches : b \in MergeBranch /\ b.entries <= Len(memory'.phis)
    BY <1>2, <1>4, <1>6
  <2>2. Len(memory'.phis) <= MaxEntries
    BY <1>2, <1>4, <1>6, MaxEntriesAssumption
  <2> QED BY <1>0, <1>2, <1>3, <1>6, <2>1, <2>2 DEF ProtocolShape
<1> QED BY <1>2, <1>3, <1>7, <1>9, <1>11, <1>12 DEF ProtocolInv

\* add_incoming on a function whose block has just branched: refused, kept or delivered.
LEMMA AddIncomingInvariant ==
  ASSUME ProtocolInv, env.error = "none", call' = call, call.fn # "shared_exit",
         NEW pred \in Unterminated, NEW via \in {"branch_from_here", "begin"}, NEW n \in Nat,
         NEW b, b = [block |-> pred, via |-> via, entries |-> Len(memory.phis)],
         NEW f, f = Branches(pred, via) \/ (f = memory /\ n # call.arity),
         add_incoming(f, Edge(Under(b), pred, n), n)
  PROVE  ProtocolInv'
<1>0. ProtocolShape
  BY DEF ProtocolInv
<1>1. CASE n # call.arity
  <2>1. memory' = f /\ raise("ValueError")
    BY <1>1 DEF add_incoming
  <2>2. memory' = memory \/ \E p \in Unterminated, v \in {"branch_from_here", "begin", "remember"} :
                              memory' = Branches(p, v)
    BY <2>1
  <2> QED BY <2>1, <2>2, RefusedInvariant
<1>2. CASE n = call.arity
  <2>1. f = Branches(pred, via) /\ f.phis = memory.phis
    BY <1>0, <1>2 DEF Branches, ProtocolShape
  <2>2. b \in MergeBranch /\ b.block = pred
    BY <1>0 DEF ProtocolShape, MergeBranch, Unterminated
  <2>3. Edge(Under(b), pred, n) = EdgeOf[b]
    BY <1>2, <2>2, EdgeTaken
  <2>4. CASE memory.phis # <<>> /\ n > 0
    <3>1. memory' = [f EXCEPT !.phis = to_last_phis(@, EdgeOf[b])] /\ env' = env
      BY <1>2, <2>1, <2>3, <2>4 DEF add_incoming
    <3> QED BY <2>1, <2>4, <3>1, DirectInvariant
  <2>5. CASE ~(memory.phis # <<>> /\ n > 0)
    <3>1. memory' = f /\ env' = [env EXCEPT !.pending = Append(@, EdgeOf[b])]
      BY <1>2, <2>1, <2>3, <2>5 DEF add_incoming
    <3>2. memory.phis = <<>> \/ call.arity = 0
      BY <1>2, <2>5
    <3> QED BY <2>1, <3>1, <3>2, PendingInvariant
  <2> QED BY <2>4, <2>5
<1> QED BY <1>1, <1>2

\* Every call of the builders keeps the invariant.
LEMMA NextInvariant == ProtocolInv /\ [ProtocolNext]_vars => ProtocolInv'
<1> SUFFICES ASSUME ProtocolInv, [ProtocolNext]_vars PROVE ProtocolInv'
  OBVIOUS
<1>0. ProtocolShape
  BY DEF ProtocolInv
<1>1. CASE join_enter
  <2>1. /\ env.error = "none" /\ call' = call /\ env' = env /\ memory' = NewPhis
        /\ call.fn # "shared_exit" /\ Len(memory.phis) < MaxEntries
    BY <1>1 DEF join_enter, Building
  <2> QED BY <2>1, DeliverInvariant
<1>2. CASE exit_finish
  <2>1. env.error = "none" /\ call' = call
    BY <1>2 DEF exit_finish, Building
  <2>2. CASE memory.phis # <<>> \/ env.pending = <<>>
    <3>1. raise("RuntimeError") /\ memory' = memory
      BY <1>2, <2>2 DEF exit_finish
    <3> QED BY <2>1, <3>1, RefusedInvariant
  <2>3. CASE ~(memory.phis # <<>> \/ env.pending = <<>>)
    <3>1. memory' = NewPhis /\ env' = env
      BY <1>2, <2>3 DEF exit_finish
    <3>2. Len(memory.phis) = 0
      BY <2>3
    <3> QED BY <2>1, <2>3, <3>1, <3>2, DeliverInvariant, MaxEntriesAssumption
  <2> QED BY <2>2, <2>3
<1>3. ASSUME NEW pred \in Preds, NEW n \in 0 .. MaxArity, branch_from_here(pred, n) PROVE ProtocolInv'
  <2> DEFINE b == [block |-> pred, via |-> "branch_from_here", entries |-> Len(memory.phis)]
  <2>1. /\ env.error = "none" /\ call' = call /\ call.fn # "shared_exit"
        /\ pred \in Unterminated /\ n \in Nat
        /\ add_incoming(Branches(pred, "branch_from_here"), Edge(pred, pred, n), n)
    BY <1>3 DEF branch_from_here, Building
  <2>2. Under(b) = pred
    BY DEF Under
  <2> HIDE DEF b
  <2>3. add_incoming(Branches(pred, "branch_from_here"), Edge(Under(b), pred, n), n)
    BY <2>1, <2>2
  <2> QED BY <2>1, <2>3, AddIncomingInvariant DEF b
<1>4. ASSUME NEW pred \in Preds, NEW n \in 0 .. MaxArity, loop_begin(pred, n) PROVE ProtocolInv'
  <2> DEFINE b == [block |-> pred, via |-> "begin", entries |-> Len(memory.phis)]
             f == IF n = call.arity THEN Branches(pred, "begin") ELSE memory
  <2>1. /\ env.error = "none" /\ call' = call /\ call.fn # "shared_exit"
        /\ pred \in Unterminated /\ n \in Nat
        /\ add_incoming(f, Edge(call.entry, pred, n), n)
    BY <1>4 DEF loop_begin, Building
  <2>2. Under(b) = call.entry
    BY DEF Under
  <2>3. f = Branches(pred, "begin") \/ (f = memory /\ n # call.arity)
    OBVIOUS
  <2> HIDE DEF b, f
  <2>4. add_incoming(f, Edge(Under(b), pred, n), n)
    BY <2>1, <2>2
  <2> QED BY <2>1, <2>3, <2>4, AddIncomingInvariant DEF b
<1>5. ASSUME NEW pred \in Preds, NEW n \in 0 .. MaxArity, exit_remember(pred, n) PROVE ProtocolInv'
  <2> DEFINE b == [block |-> pred, via |-> "remember", entries |-> Len(memory.phis)]
  <2>1. /\ env.error = "none" /\ call' = call /\ pred \in Unterminated
        /\ call.fn = "shared_exit"
    BY <1>5 DEF exit_remember, Building
  <2>2. CASE n # call.arity
    <3>1. raise("ValueError") /\ memory' = memory
      BY <1>5, <2>2 DEF exit_remember
    <3> QED BY <2>1, <3>1, RefusedInvariant
  <2>3. CASE n = call.arity
    <3>1. /\ memory' = Branches(pred, "remember")
          /\ env' = [env EXCEPT !.pending = Append(@, Edge(pred, pred, n))]
      BY <1>5, <2>3 DEF exit_remember
    <3>2. Under(b) = pred /\ b.block = pred /\ b \in MergeBranch
      BY <1>0 DEF Under, MergeBranch, ProtocolShape
    <3>3. Edge(pred, pred, n) = EdgeOf[b]
      BY <2>3, <3>2, EdgeTaken
    <3> HIDE DEF b
    <3>4. env' = [env EXCEPT !.pending = Append(@, EdgeOf[b])]
      BY <3>1, <3>3
    <3> QED BY <2>1, <3>1, <3>4, PendingInvariant DEF b
  <2> QED BY <2>2, <2>3
<1>6. CASE UNCHANGED vars
  <2>1. call' = call /\ memory' = memory /\ env' = env
    BY <1>6 DEF vars
  <2>2. ValuesTaken' = ValuesTaken /\ EdgesTaken' = EdgesTaken /\ EdgeOf' = EdgeOf
        /\ \A k : ValueOf(k)' = ValueOf(k)
    BY <2>1 DEF ValuesTaken, EdgesTaken, EdgeOf, ValueOf, Under
  <2>3. EarlyBranches' = EarlyBranches /\ Predecessors' = Predecessors
        /\ \A e : Reaching(e)' = Reaching(e)
    BY <2>1 DEF EarlyBranches, Predecessors, Reaching
  <2>4. ProtocolShape'
    BY <1>0, <2>1, <2>2 DEF ProtocolShape
  <2>5. StillDelivers' => StillDelivers
    BY <2>1 DEF StillDelivers
  <2> QED BY <2>1, <2>2, <2>3, <2>4, <2>5 DEF ProtocolInv
<1> QED BY <1>1, <1>2, <1>3, <1>4, <1>5, <1>6 DEF ProtocolNext

\* The invariant holds throughout.
LEMMA InvariantHolds == ProtocolSpec => []ProtocolInv
BY InitInvariant, NextInvariant, PTL DEF ProtocolSpec

(***************************************************************************)
(* The theorems                                                            *)
(***************************************************************************)
\* What the invariant says of the phis of a merge block.
LEMMA ProtocolEdges == ProtocolInv => EdgesReachTheirPhis
<1> SUFFICES ASSUME ProtocolInv, env.error = "none",
                    NEW e \in 1 .. Len(memory.phis), NEW k \in 1 .. call.arity
             PROVE  /\ Len(memory.phis[e][k]) = Cardinality(Reaching(e))
                    /\ {memory.phis[e][k][i] : i \in DOMAIN memory.phis[e][k]} =
                         {[block |-> Under(b), value |-> <<b.block, k>>] : b \in Reaching(e)}
  BY Zenon DEF EdgesReachTheirPhis
<1>1. Lists(memory.phis[e][k], Reaching(e), ValueOf(k))
  BY DEF ProtocolInv
<1>2. \A b \in Reaching(e) : ValueOf(k)[b] = [block |-> Under(b), value |-> <<b.block, k>>]
  BY DEF ProtocolInv, ProtocolShape, Reaching, ValueOf
<1>3. {ValueOf(k)[b] : b \in Reaching(e)} =
        {[block |-> Under(b), value |-> <<b.block, k>>] : b \in Reaching(e)}
  BY <1>2
<1> QED BY <1>1, <1>3 DEF Lists

\* Called as they are meant to be, the builders give every phi each block that branches.
LEMMA ProtocolWellFormed == ProtocolInv => WellFormedPhis
<1> SUFFICES ASSUME ProtocolInv, env.error = "none", CalledAsMeant, NEW k \in 1 .. call.arity
             PROVE  LET incoming == memory.phis[1][k]
                        preds == {b.block : b \in memory.branches}
                    IN  /\ Len(incoming) = Cardinality(preds)
                        /\ {incoming[i].block : i \in DOMAIN incoming} = preds
                        /\ \A i \in DOMAIN incoming : incoming[i].value = <<incoming[i].block, k>>
  BY Zenon DEF WellFormedPhis
<1> DEFINE incoming == memory.phis[1][k]
<1>1. /\ Lists(incoming, Reaching(1), ValueOf(k)) /\ Cardinality(Predecessors) = Cardinality(memory.branches)
      /\ Len(memory.phis) = 1
      /\ \A b \in memory.branches : /\ b \in MergeBranch /\ b.entries \in {0, 1} /\ Under(b) = b.block
                                    /\ b.via = "remember" => b.entries = 0
  BY DEF ProtocolInv, ProtocolShape, CalledAsMeant, MergeBranch
<1>2. Reaching(1) = memory.branches
  BY <1>1 DEF Reaching
<1>3. \A b \in memory.branches : ValueOf(k)[b] = [block |-> b.block, value |-> <<b.block, k>>]
  BY <1>1 DEF ValueOf
<1> HIDE DEF incoming
<1>4. {incoming[i] : i \in DOMAIN incoming} = {ValueOf(k)[b] : b \in memory.branches}
  BY <1>1, <1>2 DEF Lists
<1>5. \A i \in DOMAIN incoming : \E b \in memory.branches : incoming[i] = ValueOf(k)[b]
  BY <1>4
<1>6. \A b \in memory.branches : \E i \in DOMAIN incoming : incoming[i] = ValueOf(k)[b]
  BY <1>4
<1>7. ASSUME NEW i \in DOMAIN incoming
      PROVE  incoming[i].value = <<incoming[i].block, k>> /\ incoming[i].block \in Predecessors
  <2>1. PICK b \in memory.branches : incoming[i] = ValueOf(k)[b]
    BY <1>5
  <2>2. incoming[i] = [block |-> b.block, value |-> <<b.block, k>>]
    BY <1>3, <2>1, Zenon
  <2>3. incoming[i].block = b.block /\ incoming[i].value = <<b.block, k>>
    BY <2>2
  <2> QED BY <2>3 DEF Predecessors
<1>8. ASSUME NEW b \in memory.branches
      PROVE  \E i \in DOMAIN incoming : incoming[i].block = b.block
  <2>1. PICK i \in DOMAIN incoming : incoming[i] = ValueOf(k)[b]
    BY <1>6
  <2>2. incoming[i] = [block |-> b.block, value |-> <<b.block, k>>]
    BY <1>3, <2>1, Zenon
  <2>3. incoming[i].block = b.block
    BY <2>2
  <2> QED BY <2>3
<1>9. {incoming[i].block : i \in DOMAIN incoming} = Predecessors
  BY <1>7, <1>8 DEF Predecessors
<1>10. Len(incoming) = Cardinality(Predecessors)
  BY <1>1, <1>2 DEF Lists
<1> QED BY <1>7, <1>9, <1>10 DEF Predecessors, incoming

\* Both together.
LEMMA ProtocolPhis == ProtocolInv => PhisMatchPredecessors
BY ProtocolEdges, ProtocolWellFormed DEF PhisMatchPredecessors

\* For any number of parameters and predecessors: in any order of calls, a join entered again and an
\* exit that remembers late included, each phi lists exactly the values that reach it.  When
\* the merge block is entered or finished once, a loop is begun where it was made and nothing is
\* remembered after finish, those are one for each block that branches, before the phis or after.
THEOREM PhisComplete == ProtocolSpec => []PhisMatchPredecessors
BY ProtocolPhis, InvariantHolds, PTL

\* The calls that promise it have emitted nothing when they are refused.
LEMMA RefusalStep ==
  ASSUME ProtocolInv, env'.error # env.error,
         \/ exit_finish
         \/ \E pred \in Preds, n \in 0 .. MaxArity : loop_begin(pred, n) \/ exit_remember(pred, n)
  PROVE  memory' = memory
<1>1. env = [pending |-> env.pending, error |-> env.error]
  BY DEF ProtocolInv, ProtocolShape
<1>2. CASE exit_finish
  BY <1>2 DEF exit_finish
<1>3. ASSUME NEW pred \in Preds, NEW n \in 0 .. MaxArity, exit_remember(pred, n)
      PROVE  memory' = memory
  BY <1>1, <1>3 DEF exit_remember
<1>4. ASSUME NEW pred \in Preds, NEW n \in 0 .. MaxArity, loop_begin(pred, n)
      PROVE  memory' = memory
  <2>1. CASE n = call.arity
    <3>1. \/ UNCHANGED env
          \/ env' = [env EXCEPT !.pending = Append(@, Edge(call.entry, pred, n))]
      BY <1>4, <2>1 DEF loop_begin, add_incoming
    <3>2. env'.error = env.error
      BY <1>1, <3>1
    <3> QED BY <3>2
  <2>2. CASE n # call.arity
    BY <1>4, <2>2 DEF loop_begin, add_incoming
  <2> QED BY <2>1, <2>2
<1> QED BY <1>2, <1>3, <1>4

\* A refused remember, finish or begin has emitted nothing, whatever was called before.
THEOREM RefusalsEmitNothing == ProtocolSpec => RefusalEmitsNothing
<1>1. ProtocolInv =>
        [/\ \/ exit_finish
            \/ \E pred \in Preds, n \in 0 .. MaxArity : loop_begin(pred, n) \/ exit_remember(pred, n)
         /\ env'.error # env.error
         => memory' = memory]_vars
  BY RefusalStep
<1> QED BY <1>1, InvariantHolds, PTL DEF RefusalEmitsNothing, ProtocolSpec

\* The invariant's shape is the builders' type, a refused builder's included.
LEMMA ProtocolTyped == ProtocolInv => ProtocolTypeOK
<1> SUFFICES ASSUME ProtocolInv PROVE ProtocolTypeOK
  OBVIOUS
<1>1. /\ call.arity \in Nat /\ env.error \in {"none", "ValueError", "RuntimeError"}
      /\ memory.phis \in Seq([1 .. call.arity -> Seq(ValuesTaken)])
      /\ Len(memory.phis) <= MaxEntries /\ MaxEntries \in Nat
      /\ \A b \in memory.branches : b \in MergeBranch /\ b.entries <= Len(memory.phis)
  BY MaxEntriesAssumption DEF ProtocolInv, ProtocolShape
<1>2. Len(memory.phis) \in 0 .. MaxEntries
  BY <1>1
<1>3. ASSUME NEW e \in 1 .. Len(memory.phis)
      PROVE  Len(memory.phis[e]) = call.arity
  <2>1. memory.phis[e] \in [1 .. call.arity -> Seq(ValuesTaken)]
    BY <1>1
  <2> QED BY <1>1, <2>1
<1>4. ASSUME NEW b \in memory.branches
      PROVE  b \in [block : Preds, via : {"branch_from_here", "begin", "remember"},
                    entries : 0 .. MaxEntries]
  <2>1. b \in MergeBranch /\ b.entries <= MaxEntries
    BY <1>1, <1>2 DEF MergeBranch
  <2> QED BY <2>1 DEF MergeBranch
<1> QED BY <1>1, <1>2, <1>3, <1>4 DEF ProtocolTypeOK

(***************************************************************************)
(* The module registry.  The context's counters move together with the set *)
(* of initialized modules, whose size the resource counter is.             *)
(***************************************************************************)
ModuleRecord ==
  [generation : Generations, state : {"registered", "initialized"}, initialized : BOOLEAN]
Context == [ContextSlots -> Int]

RegistryInv ==
  /\ call.fn = Registry
  /\ memory = [modules |-> memory.modules, next_generation |-> memory.next_generation,
               context |-> memory.context]
  /\ memory.next_generation \in Nat \ {0}
  /\ memory.modules \in [LiveModules -> ModuleRecord]
  /\ memory.context \in Context
  /\ IsFiniteSet(Initialized)
  /\ ResourcesBalanced

\* What module_init does: nothing a second time, and one of everything the first time.
LEMMA InitEffect ==
  ASSUME NEW S, NEW r \in [generation : S, state : {"registered", "initialized"}, initialized : BOOLEAN],
         S \subseteq Int, NEW c \in Context
  PROVE  LET d == module_init(r, c) IN
         /\ d.record = [r EXCEPT !.initialized = TRUE]
         /\ d.context \in Context
         /\ r.initialized => d.context = c
         /\ ~r.initialized =>
              /\ d.context["resource_counter"] = c["resource_counter"] + 1
              /\ d.context["init_effects"] = c["init_effects"] + 1
              /\ d.context["fini_effects"] = c["fini_effects"]
              /\ d.context["last_generation_marker"] = r.generation
<1>1. CASE r.initialized
  BY <1>1 DEF module_init
<1>2. CASE ~r.initialized
  <2> DEFINE c1 == increment_slot(c, "resource_counter", 1)
             c2 == increment_slot(c1, "init_effects", 1)
             c3 == write_slot(c2, "last_generation_marker", r.generation)
  <2>1. module_init(r, c) = [record |-> [r EXCEPT !.initialized = TRUE], context |-> c3]
    BY <1>2 DEF module_init
  <2>2. /\ c1 \in Context
        /\ c1["resource_counter"] = c["resource_counter"] + 1
        /\ c1["init_effects"] = c["init_effects"]
        /\ c1["fini_effects"] = c["fini_effects"]
    BY DEF Context, ContextSlots, increment_slot
  <2>3. /\ c2 \in Context
        /\ c2["resource_counter"] = c1["resource_counter"]
        /\ c2["init_effects"] = c1["init_effects"] + 1
        /\ c2["fini_effects"] = c1["fini_effects"]
    <3> HIDE DEF c1
    <3> QED BY <2>2 DEF Context, ContextSlots, increment_slot
  <2>4. r.generation \in Int
    OBVIOUS
  <2>5. /\ c3 \in Context
        /\ c3["resource_counter"] = c2["resource_counter"]
        /\ c3["init_effects"] = c2["init_effects"]
        /\ c3["fini_effects"] = c2["fini_effects"]
        /\ c3["last_generation_marker"] = r.generation
    <3> HIDE DEF c2
    <3> QED BY <2>3, <2>4 DEF Context, ContextSlots, write_slot
  <2> HIDE DEF c1, c2, c3
  <2> QED BY <1>2, <2>1, <2>2, <2>3, <2>5
<1> QED BY <1>1, <1>2

\* What module_fini does: nothing to a module that is not initialized.
LEMMA FiniEffect ==
  ASSUME NEW S, NEW r \in [generation : S, state : {"registered", "initialized"}, initialized : BOOLEAN],
         S \subseteq Int, NEW c \in Context
  PROVE  LET d == module_fini(r, c) IN
         /\ d.record = [r EXCEPT !.initialized = FALSE]
         /\ d.context \in Context
         /\ ~r.initialized => d.context = c
         /\ r.initialized =>
              /\ d.context["resource_counter"] = c["resource_counter"] - 1
              /\ d.context["init_effects"] = c["init_effects"]
              /\ d.context["fini_effects"] = c["fini_effects"] + 1
              /\ d.context["last_generation_marker"] = r.generation
<1>1. CASE ~r.initialized
  BY <1>1 DEF module_fini
<1>2. CASE r.initialized
  <2> DEFINE c1 == increment_slot(c, "resource_counter", -1)
             c2 == increment_slot(c1, "fini_effects", 1)
             c3 == write_slot(c2, "last_generation_marker", r.generation)
  <2>1. module_fini(r, c) = [record |-> [r EXCEPT !.initialized = FALSE], context |-> c3]
    BY <1>2 DEF module_fini
  <2>2. /\ c1 \in Context
        /\ c1["resource_counter"] = c["resource_counter"] - 1
        /\ c1["init_effects"] = c["init_effects"]
        /\ c1["fini_effects"] = c["fini_effects"]
    BY DEF Context, ContextSlots, increment_slot
  <2>3. /\ c2 \in Context
        /\ c2["resource_counter"] = c1["resource_counter"]
        /\ c2["init_effects"] = c1["init_effects"]
        /\ c2["fini_effects"] = c1["fini_effects"] + 1
    <3> HIDE DEF c1
    <3> QED BY <2>2 DEF Context, ContextSlots, increment_slot
  <2>4. r.generation \in Int
    OBVIOUS
  <2>5. /\ c3 \in Context
        /\ c3["resource_counter"] = c2["resource_counter"]
        /\ c3["init_effects"] = c2["init_effects"]
        /\ c3["fini_effects"] = c2["fini_effects"]
        /\ c3["last_generation_marker"] = r.generation
    <3> HIDE DEF c2
    <3> QED BY <2>3, <2>4 DEF Context, ContextSlots, write_slot
  <2>6. /\ c3["resource_counter"] = c["resource_counter"] - 1
        /\ c3["init_effects"] = c["init_effects"]
        /\ c3["fini_effects"] = c["fini_effects"] + 1
    <3> HIDE DEF c1, c2, c3
    <3> QED BY <2>2, <2>3, <2>5
  <2>7. module_fini(r, c).record = [r EXCEPT !.initialized = FALSE] /\ module_fini(r, c).context = c3
    <3> HIDE DEF c3
    <3> QED BY <2>1
  <2> HIDE DEF c1, c2, c3
  <2> QED BY <1>2, <2>5, <2>6, <2>7, Zenon
<1> QED BY <1>1, <1>2

\* The record of a live module, and who the generations' owners are.
LEMMA LiveRecord ==
  ASSUME RegistryInv, NEW id \in LiveModules
  PROVE  /\ memory.modules[id] \in ModuleRecord
         /\ Generations \subseteq Int
         /\ memory.modules[id].generation \in LiveGenerations
BY DEF RegistryInv, Generations, LiveGenerations

\* The counters stay balanced when the set of initialized modules changes with them.
LEMMA StaysBalanced ==
  ASSUME RegistryInv, NEW id,
         call' = call,
         memory' = [modules |-> memory'.modules, next_generation |-> memory'.next_generation,
                    context |-> memory'.context],
         memory'.next_generation \in Nat \ {0},
         memory'.modules \in [LiveModules' -> ModuleRecord'],
         memory'.context \in Context,
         \A i \in Initialized' : memory'.modules[i].state = "initialized",
         \/ /\ Initialized' = Initialized /\ memory'.context = memory.context
         \/ /\ id \notin Initialized /\ Initialized' = Initialized \cup {id}
            /\ memory'.context["resource_counter"] = memory.context["resource_counter"] + 1
            /\ memory'.context["init_effects"] = memory.context["init_effects"] + 1
            /\ memory'.context["fini_effects"] = memory.context["fini_effects"]
         \/ /\ id \in Initialized /\ Initialized' = Initialized \ {id}
            /\ memory'.context["resource_counter"] = memory.context["resource_counter"] - 1
            /\ memory'.context["init_effects"] = memory.context["init_effects"]
            /\ memory'.context["fini_effects"] = memory.context["fini_effects"] + 1
  PROVE  RegistryInv'
<1> DEFINE n == Cardinality(Initialized)
<1>1. /\ IsFiniteSet(Initialized) /\ n \in Nat
      /\ memory.context["resource_counter"] = n
      /\ memory.context["resource_counter"] = memory.context["init_effects"] - memory.context["fini_effects"]
      /\ memory.context["init_effects"] \in Int /\ memory.context["fini_effects"] \in Int
  BY FS_CardinalityType DEF RegistryInv, ResourcesBalanced, Context, ContextSlots
<1>2. /\ IsFiniteSet(Initialized')
      /\ memory'.context["resource_counter"] = Cardinality(Initialized')
  <2>1. CASE Initialized' = Initialized /\ memory'.context = memory.context
    BY <1>1, <2>1
  <2>2. CASE /\ id \notin Initialized /\ Initialized' = Initialized \cup {id}
             /\ memory'.context["resource_counter"] = memory.context["resource_counter"] + 1
    <3>1. /\ IsFiniteSet(Initialized \cup {id})
          /\ Cardinality(Initialized \cup {id}) = n + 1
      BY <1>1, <2>2, FS_AddElement
    <3> QED BY <1>1, <2>2, <3>1
  <2>3. CASE /\ id \in Initialized /\ Initialized' = Initialized \ {id}
             /\ memory'.context["resource_counter"] = memory.context["resource_counter"] - 1
    <3>1. /\ IsFiniteSet(Initialized \ {id})
          /\ Cardinality(Initialized \ {id}) = n - 1
      BY <1>1, <2>3, FS_RemoveElement
    <3> QED BY <1>1, <2>3, <3>1
  <2> QED BY <2>1, <2>2, <2>3
<1>3. memory'.context["resource_counter"]
        = memory'.context["init_effects"] - memory'.context["fini_effects"]
  BY <1>1
<1> QED BY <1>2, <1>3 DEF RegistryInv, ResourcesBalanced

\* A refused request leaves the invariant alone.
LEMMA RefuseKeeps ==
  ASSUME RegistryInv, NEW token, NEW error, Refuse(token, error)
  PROVE  RegistryInv'
<1> QED BY DEF RegistryInv, Refuse, ResourcesBalanced, LiveModules, ModuleRecord, Generations, Initialized

\* A load adds a module that is not initialized.
LEMMA LoadKeeps ==
  ASSUME RegistryInv, NEW id, load_module(id)
  PROVE  RegistryInv'
<1>1. CASE Refuse(0, "LifecycleError")
  BY <1>1, RefuseKeeps
<1>2. CASE id \notin LiveModules /\ call' = call
           /\ memory' = [memory EXCEPT
                !.next_generation = @ + 1,
                !.modules = [i \in LiveModules \cup {id} |->
                  IF i = id
                  THEN [generation |-> memory.next_generation, state |-> "registered",
                        initialized |-> FALSE]
                  ELSE @[i]]]
  <2> DEFINE new == [generation |-> memory.next_generation, state |-> "registered",
                     initialized |-> FALSE]
  <2>1. /\ memory'.next_generation = memory.next_generation + 1
        /\ memory'.context = memory.context
        /\ memory'.modules = [i \in LiveModules \cup {id} |->
                                IF i = id THEN new ELSE memory.modules[i]]
        /\ memory' = [modules |-> memory'.modules, next_generation |-> memory'.next_generation,
                      context |-> memory'.context]
    BY <1>2 DEF RegistryInv
  <2>2. memory.next_generation \in Nat \ {0} /\ memory'.next_generation \in Nat \ {0}
    BY <2>1 DEF RegistryInv
  <2>3. /\ LiveModules' = LiveModules \cup {id}
        /\ \A i \in LiveModules : memory'.modules[i] = memory.modules[i]
        /\ memory'.modules[id] = new
    BY <1>2, <2>1 DEF LiveModules
  <2>4. /\ Generations \subseteq Generations' /\ memory.next_generation \in Generations'
    BY <2>1, <2>2 DEF Generations
  <2>5. new \in ModuleRecord'
    BY <2>4 DEF ModuleRecord
  <2>6. \A i \in LiveModules : memory.modules[i] \in ModuleRecord'
    BY <2>4 DEF ModuleRecord, RegistryInv
  <2>7. memory'.modules \in [LiveModules' -> ModuleRecord']
    <3> HIDE DEF new
    <3> QED BY <2>1, <2>3, <2>5, <2>6
  <2>8. Initialized' = Initialized
    BY <1>2, <2>3 DEF Initialized
  <2>9. \A i \in Initialized' : memory'.modules[i].state = "initialized"
    BY <2>3, <2>8 DEF Initialized, RegistryInv, ResourcesBalanced
  <2>10. memory'.context \in Context
    BY <2>1 DEF RegistryInv
  <2> HIDE DEF new
  <2> QED BY <1>2, <2>1, <2>2, <2>7, <2>8, <2>9, <2>10, StaysBalanced
<1> QED BY <1>1, <1>2 DEF load_module, Request

\* The request of a live generation is not refused.
LEMMA LiveRequest ==
  ASSUME NEW id, NEW generation, require_live_record(id, generation) = "none"
  PROVE  id \in LiveModules /\ memory.modules[id].generation = generation
BY DEF require_live_record

\* One record is replaced by one of the same generation, and the context with it.
LEMMA ReplaceKeeps ==
  ASSUME RegistryInv, NEW id \in LiveModules, NEW rec, NEW context \in Context,
         call' = call, memory' = [memory EXCEPT !.modules[id] = rec, !.context = context],
         rec \in ModuleRecord, rec.generation = memory.modules[id].generation,
         rec.initialized => rec.state = "initialized",
         \/ rec.initialized = memory.modules[id].initialized /\ context = memory.context
         \/ /\ ~memory.modules[id].initialized /\ rec.initialized
            /\ context["resource_counter"] = memory.context["resource_counter"] + 1
            /\ context["init_effects"] = memory.context["init_effects"] + 1
            /\ context["fini_effects"] = memory.context["fini_effects"]
         \/ /\ memory.modules[id].initialized /\ ~rec.initialized
            /\ context["resource_counter"] = memory.context["resource_counter"] - 1
            /\ context["init_effects"] = memory.context["init_effects"]
            /\ context["fini_effects"] = memory.context["fini_effects"] + 1
  PROVE  RegistryInv'
<1>1. /\ memory'.next_generation = memory.next_generation
      /\ memory'.context = context
      /\ memory'.modules = [memory.modules EXCEPT ![id] = rec]
      /\ memory' = [modules |-> memory'.modules, next_generation |-> memory'.next_generation,
                    context |-> memory'.context]
  BY DEF RegistryInv
<1>2. memory.modules \in [LiveModules -> ModuleRecord]
  BY DEF RegistryInv
<1>3. /\ LiveModules' = LiveModules
      /\ memory'.modules[id] = rec
      /\ \A i \in LiveModules : i # id => memory'.modules[i] = memory.modules[i]
  BY <1>1, <1>2 DEF LiveModules
<1>4. ModuleRecord' = ModuleRecord
  BY <1>1 DEF ModuleRecord, Generations
<1>5. memory'.modules \in [LiveModules' -> ModuleRecord']
  BY <1>1, <1>2, <1>3, <1>4
<1>6. \A i \in Initialized' : memory'.modules[i].state = "initialized"
  BY <1>3 DEF Initialized, RegistryInv, ResourcesBalanced
<1>7. CASE rec.initialized = memory.modules[id].initialized /\ context = memory.context
  <2>1. Initialized' = Initialized
    BY <1>3, <1>7 DEF Initialized
  <2>2. memory'.next_generation \in Nat \ {0}
    BY <1>1 DEF RegistryInv
  <2> QED BY <1>1, <1>5, <1>6, <1>7, <2>1, <2>2, StaysBalanced
<1>8. CASE /\ ~memory.modules[id].initialized /\ rec.initialized
           /\ context["resource_counter"] = memory.context["resource_counter"] + 1
           /\ context["init_effects"] = memory.context["init_effects"] + 1
           /\ context["fini_effects"] = memory.context["fini_effects"]
  <2>1. id \notin Initialized /\ Initialized' = Initialized \cup {id}
    BY <1>3, <1>8 DEF Initialized
  <2>2. memory'.next_generation \in Nat \ {0}
    BY <1>1 DEF RegistryInv
  <2> QED BY <1>1, <1>5, <1>6, <1>8, <2>1, <2>2, StaysBalanced
<1>9. CASE /\ memory.modules[id].initialized /\ ~rec.initialized
           /\ context["resource_counter"] = memory.context["resource_counter"] - 1
           /\ context["init_effects"] = memory.context["init_effects"]
           /\ context["fini_effects"] = memory.context["fini_effects"] + 1
  <2>1. id \in Initialized /\ Initialized' = Initialized \ {id}
    BY <1>3, <1>9 DEF Initialized
  <2>2. memory'.next_generation \in Nat \ {0}
    BY <1>1 DEF RegistryInv
  <2> QED BY <1>1, <1>5, <1>6, <1>9, <2>1, <2>2, StaysBalanced
<1> QED BY <1>7, <1>8, <1>9

\* init_module
LEMMA InitKeeps ==
  ASSUME RegistryInv, NEW id, NEW generation, init_module(id, generation)
  PROVE  RegistryInv'
<1> DEFINE error == require_live_record(id, generation)
<1>1. CASE Refuse(generation, error)
  BY <1>1, RefuseKeeps
<1>2. CASE error = "none" /\ Request(generation)
  <2> DEFINE r == memory.modules[id]
             done == module_init(r, memory.context)
             rec == [done.record EXCEPT !.state = IF done.record.initialized THEN "initialized" ELSE @]
  <2>1. id \in LiveModules
    BY <1>2, LiveRequest
  <2>2. r \in ModuleRecord /\ Generations \subseteq Int
    BY <2>1, LiveRecord
  <2>3. memory.context \in Context
    BY DEF RegistryInv
  <2>4. /\ done.record = [r EXCEPT !.initialized = TRUE]
        /\ done.context \in Context
        /\ r.initialized => done.context = memory.context
        /\ ~r.initialized =>
             /\ done.context["resource_counter"] = memory.context["resource_counter"] + 1
             /\ done.context["init_effects"] = memory.context["init_effects"] + 1
             /\ done.context["fini_effects"] = memory.context["fini_effects"]
    BY <2>2, <2>3, InitEffect DEF ModuleRecord
  <2>5. /\ rec \in ModuleRecord /\ rec.generation = r.generation
        /\ rec.initialized = TRUE /\ rec.state = "initialized"
    <3> HIDE DEF r, done
    <3>1. done.record = [generation |-> r.generation, state |-> r.state, initialized |-> TRUE]
      BY <2>2, <2>4 DEF ModuleRecord
    <3>2. done.record.initialized
      BY <3>1
    <3>3. rec = [done.record EXCEPT !.state = "initialized"]
      BY <3>2
    <3> HIDE DEF rec
    <3>4. done.record \in ModuleRecord /\ done.record.generation = r.generation
      BY <2>2, <3>1 DEF ModuleRecord
    <3> QED BY <3>2, <3>3, <3>4 DEF ModuleRecord
  <2>6. memory' = [memory EXCEPT !.modules[id] = rec, !.context = done.context]
    BY <1>2 DEF init_module, Refuse
  <2>7. call' = call
    BY <1>2 DEF Request
  <2>8. r.initialized \in BOOLEAN
    BY <2>2 DEF ModuleRecord
  <2> HIDE DEF r, done, rec
  <2>9. CASE r.initialized
    <3>1. rec.initialized = r.initialized /\ done.context = memory.context
      BY <2>4, <2>5, <2>8, <2>9
    <3> QED BY <2>1, <2>4, <2>5, <2>6, <2>7, <3>1, ReplaceKeeps DEF r
  <2>10. CASE ~r.initialized
    BY <2>1, <2>4, <2>5, <2>6, <2>7, <2>10, ReplaceKeeps DEF r
  <2> QED BY <2>9, <2>10
<1> QED BY <1>1, <1>2 DEF init_module

\* module_fini called through the record.
LEMMA ManualFiniKeeps ==
  ASSUME RegistryInv, NEW id, manual_fini(id)
  PROVE  RegistryInv'
<1> DEFINE r == memory.modules[id]
           done == module_fini(r, memory.context)
<1>1. id \in LiveModules /\ call' = call
      /\ memory' = [memory EXCEPT !.modules[id] = done.record, !.context = done.context]
  BY DEF manual_fini, Request
<1>2. r \in ModuleRecord /\ Generations \subseteq Int /\ memory.context \in Context
  BY <1>1, LiveRecord DEF RegistryInv
<1>3. /\ done.record = [r EXCEPT !.initialized = FALSE]
      /\ done.context \in Context
      /\ ~r.initialized => done.context = memory.context
      /\ r.initialized =>
           /\ done.context["resource_counter"] = memory.context["resource_counter"] - 1
           /\ done.context["init_effects"] = memory.context["init_effects"]
           /\ done.context["fini_effects"] = memory.context["fini_effects"] + 1
  BY <1>2, FiniEffect DEF ModuleRecord
<1>4. /\ done.record \in ModuleRecord /\ done.record.generation = r.generation
      /\ done.record.initialized = FALSE
  <2> HIDE DEF r
  <2> QED BY <1>2, <1>3 DEF ModuleRecord
<1>5. r.initialized \in BOOLEAN
  BY <1>2 DEF ModuleRecord
<1> HIDE DEF r, done
<1>6. CASE r.initialized
  BY <1>1, <1>3, <1>4, <1>6, ReplaceKeeps DEF r
<1>7. CASE ~r.initialized
  <2>1. done.record.initialized = r.initialized /\ done.context = memory.context
    BY <1>3, <1>4, <1>5, <1>7
  <2> QED BY <1>1, <1>3, <1>4, <2>1, ReplaceKeeps DEF r
<1> QED BY <1>6, <1>7

\* unload_module
LEMMA UnloadKeeps ==
  ASSUME RegistryInv, NEW id, NEW generation, unload_module(id, generation)
  PROVE  RegistryInv'
<1> DEFINE error == require_live_record(id, generation)
<1>1. CASE Refuse(generation, error)
  BY <1>1, RefuseKeeps
<1>2. CASE error = "none" /\ Request(generation)
  <2> DEFINE r == memory.modules[id]
             done == module_fini(r, memory.context)
  <2>1. id \in LiveModules /\ call' = call
    BY <1>2, LiveRequest DEF Request
  <2>2. r \in ModuleRecord /\ Generations \subseteq Int /\ memory.context \in Context
    BY <2>1, LiveRecord DEF RegistryInv
  <2>3. /\ done.context \in Context
        /\ ~r.initialized => done.context = memory.context
        /\ r.initialized =>
             /\ done.context["resource_counter"] = memory.context["resource_counter"] - 1
             /\ done.context["init_effects"] = memory.context["init_effects"]
             /\ done.context["fini_effects"] = memory.context["fini_effects"] + 1
    BY <2>2, FiniEffect DEF ModuleRecord
  <2>4. memory' = [memory EXCEPT !.modules = [i \in LiveModules \ {id} |-> @[i]],
                                 !.context = done.context]
    BY <1>2 DEF unload_module, Refuse
  <2> HIDE DEF done
  <2>5. /\ memory'.next_generation = memory.next_generation
        /\ memory'.context = done.context
        /\ memory'.modules = [i \in LiveModules \ {id} |-> memory.modules[i]]
        /\ memory' = [modules |-> memory'.modules, next_generation |-> memory'.next_generation,
                      context |-> memory'.context]
    BY <2>4 DEF RegistryInv
  <2>6. /\ LiveModules' = LiveModules \ {id}
        /\ \A i \in LiveModules' : memory'.modules[i] = memory.modules[i]
    BY <2>5 DEF LiveModules
  <2>7. ModuleRecord' = ModuleRecord
    BY <2>5 DEF ModuleRecord, Generations
  <2>8. memory'.modules \in [LiveModules' -> ModuleRecord']
    BY <2>5, <2>6, <2>7 DEF RegistryInv
  <2>9. Initialized' = Initialized \ {id}
    BY <2>6 DEF Initialized
  <2>10. \A i \in Initialized' : memory'.modules[i].state = "initialized"
    BY <2>6, <2>9 DEF Initialized, RegistryInv, ResourcesBalanced
  <2>11. memory'.next_generation \in Nat \ {0}
    BY <2>5 DEF RegistryInv
  <2>12. CASE r.initialized
    <3>1. id \in Initialized
      BY <2>1, <2>12 DEF Initialized
    <3> QED BY <2>1, <2>3, <2>5, <2>8, <2>9, <2>10, <2>11, <2>12, <3>1, StaysBalanced
  <2>13. CASE ~r.initialized
    <3>1. Initialized' = Initialized
      BY <2>9, <2>13 DEF Initialized
    <3> QED BY <2>1, <2>3, <2>5, <2>8, <2>10, <2>11, <2>13, <3>1, StaysBalanced
  <2> QED BY <2>12, <2>13
<1> QED BY <1>1, <1>2 DEF unload_module

\* The registry begins empty.
LEMMA RegistryInitial == RegistryInit => RegistryInv
<1> SUFFICES ASSUME RegistryInit PROVE RegistryInv
  OBVIOUS
<1>1. LiveModules = {}
  BY DEF RegistryInit, LiveModules
<1>2. Initialized = {} /\ Cardinality({}) = 0 /\ IsFiniteSet({})
  BY <1>1, FS_EmptySet DEF Initialized
<1>3. memory.modules \in [LiveModules -> ModuleRecord]
  BY <1>1 DEF RegistryInit
<1>4. memory.context \in Context
  BY DEF RegistryInit, Context
<1>5. /\ memory.context["resource_counter"] = 0
      /\ memory.context["init_effects"] = 0
      /\ memory.context["fini_effects"] = 0
  BY DEF RegistryInit, ContextSlots
<1>6. ResourcesBalanced
  BY <1>2, <1>5 DEF ResourcesBalanced
<1> QED BY <1>2, <1>3, <1>4, <1>6 DEF RegistryInit, RegistryInv

\* Every request keeps RegistryInv.
LEMMA RegistryStep == RegistryInv /\ [RegistryNext]_vars => RegistryInv'
<1> SUFFICES ASSUME RegistryInv, [RegistryNext]_vars PROVE RegistryInv'
  OBVIOUS
<1>1. CASE UNCHANGED vars
  BY <1>1 DEF vars, RegistryInv, ResourcesBalanced, LiveModules, ModuleRecord, Generations, Initialized
<1>2. CASE RegistryNext
  BY <1>2, LoadKeeps, ManualFiniKeeps, InitKeeps, UnloadKeeps DEF RegistryNext
<1> QED BY <1>1, <1>2

\* The invariant holds throughout.
LEMMA RegistryInvariant == RegistrySpec => []RegistryInv
BY RegistryInitial, RegistryStep, PTL DEF RegistrySpec

\* For any number of modules, loads and requests, with whatever tokens: the context counts one
\* resource for each live initialized module.
THEOREM ResourcesCounted == RegistrySpec => []ResourcesBalanced
<1>1. RegistryInv => ResourcesBalanced
  BY DEF RegistryInv
<1> QED BY <1>1, RegistryInvariant, PTL

\* No request brings a generation back to life or acts in the name of another than its own.
LEMMA StaleStep ==
  ASSUME RegistryInv, RegistryNext
  PROVE  /\ \A g \in Generations : g \notin LiveGenerations => g \notin LiveGenerations'
         /\ memory'.context # memory.context =>
              /\ env'.token \in LiveGenerations
              /\ memory'.context["last_generation_marker"] = env'.token
<1> DEFINE Old == \A g \in Generations : g \notin LiveGenerations => g \notin LiveGenerations'
           Named == memory'.context # memory.context =>
                      /\ env'.token \in LiveGenerations
                      /\ memory'.context["last_generation_marker"] = env'.token
<1>1. ASSUME memory' = memory PROVE Old /\ Named
  BY <1>1 DEF LiveGenerations, LiveModules
<1>2. ASSUME NEW id, load_module(id) PROVE Old /\ Named
  <2>1. CASE Refuse(0, "LifecycleError")
    BY <1>1, <2>1 DEF Refuse
  <2>2. CASE ~Refuse(0, "LifecycleError")
    <3> DEFINE new == [generation |-> memory.next_generation, state |-> "registered",
                       initialized |-> FALSE]
    <3>1. memory' = [memory EXCEPT
                !.next_generation = @ + 1,
                !.modules = [i \in LiveModules \cup {id} |-> IF i = id THEN new ELSE @[i]]]
      BY <1>2, <2>2 DEF load_module
    <3>2. /\ memory'.context = memory.context
          /\ memory'.modules = [i \in LiveModules \cup {id} |->
                                  IF i = id THEN new ELSE memory.modules[i]]
      BY <3>1 DEF RegistryInv
    <3>3. \A i \in LiveModules' : \/ memory'.modules[i].generation = memory.next_generation
                                  \/ memory'.modules[i].generation \in LiveGenerations
      BY <3>2 DEF LiveModules, LiveGenerations
    <3>4. memory.next_generation \notin Generations
      BY DEF Generations, RegistryInv
    <3>5. Old
      BY <3>3, <3>4 DEF LiveGenerations
    <3> QED BY <3>2, <3>5
  <2> QED BY <2>1, <2>2
<1>3. ASSUME NEW id \in LiveModules, NEW rec, NEW context,
             memory' = [memory EXCEPT !.modules[id] = rec, !.context = context],
             rec.generation = memory.modules[id].generation,
             env'.token = memory.modules[id].generation,
             context # memory.context => context["last_generation_marker"] = rec.generation
      PROVE  Old /\ Named
  <2>1. memory'.context = context /\ memory'.modules = [memory.modules EXCEPT ![id] = rec]
    BY <1>3 DEF RegistryInv
  <2>2. LiveModules' = LiveModules
    BY <2>1 DEF LiveModules
  <2>3. \A i \in LiveModules : memory'.modules[i].generation = memory.modules[i].generation
    BY <1>3, <2>1 DEF LiveModules
  <2>4. LiveGenerations' = LiveGenerations
    BY <2>2, <2>3 DEF LiveGenerations
  <2>5. env'.token \in LiveGenerations
    BY <1>3, LiveRecord
  <2> QED BY <1>3, <2>1, <2>4, <2>5
<1>4. ASSUME NEW id, manual_fini(id) PROVE Old /\ Named
  <2> DEFINE r == memory.modules[id]
             done == module_fini(r, memory.context)
  <2>1. /\ id \in LiveModules /\ env' = [token |-> r.generation, error |-> "none"]
        /\ memory' = [memory EXCEPT !.modules[id] = done.record, !.context = done.context]
    BY <1>4 DEF manual_fini, Request
  <2>2. r \in ModuleRecord /\ Generations \subseteq Int /\ memory.context \in Context
    BY <2>1, LiveRecord DEF RegistryInv
  <2>3. /\ done.record = [r EXCEPT !.initialized = FALSE]
        /\ r.initialized \in BOOLEAN
        /\ ~r.initialized => done.context = memory.context
        /\ r.initialized => done.context["last_generation_marker"] = r.generation
    BY <2>2, FiniEffect DEF ModuleRecord
  <2>4. done.record.generation = r.generation
    <3> HIDE DEF r
    <3> QED BY <2>2, <2>3 DEF ModuleRecord
  <2>5. done.context # memory.context => done.context["last_generation_marker"] = done.record.generation
    BY <2>3, <2>4
  <2>6. env'.token = r.generation
    BY <2>1
  <2> HIDE DEF done
  <2> QED BY <1>3, <2>1, <2>4, <2>5, <2>6
<1>5. ASSUME NEW id, NEW generation, init_module(id, generation) PROVE Old /\ Named
  <2> DEFINE error == require_live_record(id, generation)
             r == memory.modules[id]
             done == module_init(r, memory.context)
             rec == [done.record EXCEPT !.state = IF done.record.initialized THEN "initialized" ELSE @]
  <2>1. CASE Refuse(generation, error)
    BY <1>1, <2>1 DEF Refuse
  <2>2. CASE error = "none" /\ ~Refuse(generation, error)
    <3>1. id \in LiveModules /\ r.generation = generation
      BY <2>2, LiveRequest
    <3>2. /\ env' = [token |-> generation, error |-> "none"]
          /\ memory' = [memory EXCEPT !.modules[id] = rec, !.context = done.context]
      BY <1>5, <2>2 DEF init_module, Request
    <3>3. r \in ModuleRecord /\ Generations \subseteq Int /\ memory.context \in Context
      BY <3>1, LiveRecord DEF RegistryInv
    <3>4. /\ done.record = [r EXCEPT !.initialized = TRUE]
          /\ r.initialized \in BOOLEAN
          /\ r.initialized => done.context = memory.context
          /\ ~r.initialized => done.context["last_generation_marker"] = r.generation
      BY <3>3, InitEffect DEF ModuleRecord
    <3>5. rec.generation = r.generation
      <4> HIDE DEF r, done
      <4>1. done.record = [generation |-> r.generation, state |-> r.state, initialized |-> TRUE]
        BY <3>3, <3>4 DEF ModuleRecord
      <4> QED BY <4>1
    <3>6. done.context # memory.context => done.context["last_generation_marker"] = rec.generation
      BY <3>4, <3>5
    <3>7. env'.token = r.generation
      BY <3>1, <3>2
    <3> HIDE DEF done, rec
    <3> QED BY <1>3, <3>1, <3>2, <3>5, <3>6, <3>7
  <2> QED BY <1>5, <2>1, <2>2 DEF init_module
<1>6. ASSUME NEW id, NEW generation, unload_module(id, generation) PROVE Old /\ Named
  <2> DEFINE error == require_live_record(id, generation)
             r == memory.modules[id]
             done == module_fini(r, memory.context)
  <2>1. CASE Refuse(generation, error)
    BY <1>1, <2>1 DEF Refuse
  <2>2. CASE error = "none" /\ ~Refuse(generation, error)
    <3>1. id \in LiveModules /\ r.generation = generation
      BY <2>2, LiveRequest
    <3>2. /\ env' = [token |-> generation, error |-> "none"]
          /\ memory' = [memory EXCEPT !.modules = [i \in LiveModules \ {id} |-> @[i]],
                                      !.context = done.context]
      BY <1>6, <2>2 DEF unload_module, Request
    <3>3. r \in ModuleRecord /\ Generations \subseteq Int /\ memory.context \in Context
      BY <3>1, LiveRecord DEF RegistryInv
    <3>4. /\ r.initialized \in BOOLEAN
          /\ ~r.initialized => done.context = memory.context
          /\ r.initialized => done.context["last_generation_marker"] = r.generation
      BY <3>3, FiniEffect DEF ModuleRecord
    <3>5. r.generation \in LiveGenerations
      BY <3>1, LiveRecord
    <3> HIDE DEF done
    <3>6. /\ memory'.context = done.context
          /\ memory'.modules = [i \in LiveModules \ {id} |-> memory.modules[i]]
      BY <3>2 DEF RegistryInv
    <3>7. Old
      BY <3>6 DEF LiveGenerations, LiveModules
    <3>8. Named
      BY <3>1, <3>2, <3>4, <3>5, <3>6
    <3> QED BY <3>7, <3>8
  <2> QED BY <1>6, <2>1, <2>2 DEF unload_module
<1> HIDE DEF Old, Named
<1>7. Old /\ Named
  BY <1>2, <1>4, <1>5, <1>6 DEF RegistryNext
<1> QED BY <1>7 DEF Old, Named

\* For any number of modules, loads and requests: an unloaded generation stays dead, and the
\* context changes only in the name of the live generation that was asked for.
THEOREM StaleTokensStayDead == RegistrySpec => StaleTokensAreDead
<1>1. RegistryInv /\ [RegistryNext]_vars =>
        [call.fn = Registry =>
           /\ \A g \in Generations : g \notin LiveGenerations => g \notin LiveGenerations'
           /\ memory'.context # memory.context =>
                /\ env'.token \in LiveGenerations
                /\ memory'.context["last_generation_marker"] = env'.token]_vars
  BY StaleStep
<1> QED BY <1>1, RegistryInvariant, PTL DEF RegistrySpec, StaleTokensAreDead

\* The registry holds modules that can be asked for.
LEMMA LiveModulesStep ==
  ASSUME RegistryInv, LiveModules \subseteq ModuleIds, [RegistryNext]_vars
  PROVE  LiveModules' \subseteq ModuleIds
<1>1. CASE UNCHANGED vars
  BY <1>1 DEF vars, LiveModules
<1>2. memory = [modules |-> memory.modules, next_generation |-> memory.next_generation,
                context |-> memory.context]
  BY DEF RegistryInv
<1>3. ASSUME NEW token, NEW error, Refuse(token, error) PROVE LiveModules' \subseteq ModuleIds
  BY <1>3 DEF Refuse, LiveModules
<1>4. ASSUME NEW id \in ModuleIds, load_module(id) PROVE LiveModules' \subseteq ModuleIds
  <2>1. CASE id \in LiveModules
    BY <1>3, <1>4, <2>1 DEF load_module
  <2>2. CASE id \notin LiveModules
    <3>1. DOMAIN memory'.modules = LiveModules \cup {id}
      BY <1>2, <1>4, <2>2 DEF load_module
    <3> QED BY <3>1 DEF LiveModules
  <2> QED BY <2>1, <2>2
<1>5. ASSUME NEW record, NEW id, NEW context,
             memory' = [memory EXCEPT !.modules[id] = record, !.context = context]
      PROVE  LiveModules' \subseteq ModuleIds
  <2>1. DOMAIN memory'.modules = DOMAIN memory.modules
    BY <1>2, <1>5
  <2> QED BY <2>1 DEF LiveModules
<1>6. ASSUME NEW id, manual_fini(id) PROVE LiveModules' \subseteq ModuleIds
  BY <1>5, <1>6 DEF manual_fini
<1>7. ASSUME NEW id, NEW generation, init_module(id, generation) PROVE LiveModules' \subseteq ModuleIds
  BY <1>3, <1>5, <1>7 DEF init_module
<1>8. ASSUME NEW id, NEW generation, unload_module(id, generation) PROVE LiveModules' \subseteq ModuleIds
  <2>1. CASE \E error : Refuse(generation, error)
    BY <1>3, <2>1
  <2>2. CASE \E context : memory' = [memory EXCEPT !.modules = [i \in LiveModules \ {id} |-> @[i]],
                                                  !.context = context]
    <3>1. DOMAIN memory'.modules = LiveModules \ {id}
      BY <1>2, <2>2
    <3> QED BY <3>1 DEF LiveModules
  <2> QED BY <1>8, <2>1, <2>2 DEF unload_module
<1> QED BY <1>1, <1>4, <1>6, <1>7, <1>8 DEF RegistryNext

(***************************************************************************)
(* The export plan.  Calls are checked when they are emitted, against      *)
(* declarations that never change; so when finalize takes every export at  *)
(* once, no call is left without its callee.                               *)
(***************************************************************************)
Call == [name : ExportNames, signature : ExportSignatures]
BodyBlocks ==
  [calls : SUBSET Call, ends : {"open", "ret"}, body : {"begun", "finished", "abandoned"}]
Export == [signature : ExportSignatures, definition_index : Int, blocks : Seq(BodyBlocks)]
OpenBody == [name : ExportNames, index : Nat]

\* Every call of the block is to a declared export of the signature it was emitted for.
CallsMatch(p, b) ==
  \A c \in b.calls : c.name \in DOMAIN p.exports /\ p.exports[c.name].signature = c.signature

PlanOK(p) ==
  /\ p = [exports |-> p.exports, definition_counter |-> p.definition_counter,
          finalized |-> p.finalized, callables |-> p.callables]
  /\ p.definition_counter \in Nat
  /\ DOMAIN p.exports \subseteq ExportNames
  /\ p.exports \in [DOMAIN p.exports -> Export]
  /\ \A n \in DOMAIN p.exports :
       /\ p.exports[n].definition_index # NoDefinition => p.exports[n].blocks # <<>>
       /\ \A i \in DOMAIN p.exports[n].blocks : CallsMatch(p, p.exports[n].blocks[i])
  /\ DOMAIN p.callables \subseteq DOMAIN p.exports
  /\ \A n \in DOMAIN p.callables :
       /\ p.callables[n].ends = "ret"
       /\ \A c \in p.callables[n].calls :
            c.name \in DOMAIN p.callables /\ p.exports[c.name].signature = c.signature

OpenOK(p, open) ==
  /\ open \in Seq(OpenBody)
  /\ \A i \in DOMAIN open :
       open[i].name \in DOMAIN p.exports /\ open[i].index \in DOMAIN p.exports[open[i].name].blocks

PlanShape ==
  /\ call.fn = PlanFn
  /\ PlanOK(memory)
  /\ env = [open |-> env.open]
  /\ OpenOK(memory, env.open)

\* Another export in the place of n, of its signature.
Replaced(p, n, e, k) ==
  [p EXCEPT !.exports = [p.exports EXCEPT ![n] = e], !.definition_counter = k]
Fits(p, n, e) ==
  /\ n \in DOMAIN p.exports /\ e \in Export
  /\ e.signature = p.exports[n].signature
  /\ e.definition_index # NoDefinition => e.blocks # <<>>
  /\ \A i \in DOMAIN e.blocks : CallsMatch(p, e.blocks[i])

\* One export is replaced by another that fits.
LEMMA ReplaceExport ==
  ASSUME NEW p, PlanOK(p), NEW n, NEW e, NEW k \in Nat, NEW q,
         Fits(p, n, e), q = Replaced(p, n, e, k)
  PROVE  /\ PlanOK(q)
         /\ DOMAIN q.exports = DOMAIN p.exports
         /\ q.exports[n] = e
         /\ \A m \in DOMAIN p.exports : m # n => q.exports[m] = p.exports[m]
<1> USE DEF Fits
<1>1. /\ q.exports = [p.exports EXCEPT ![n] = e]
      /\ q.definition_counter = k /\ q.finalized = p.finalized /\ q.callables = p.callables
      /\ q = [exports |-> q.exports, definition_counter |-> q.definition_counter,
              finalized |-> q.finalized, callables |-> q.callables]
  BY DEF PlanOK, Replaced
<1>2. /\ DOMAIN q.exports = DOMAIN p.exports
      /\ q.exports[n] = e
      /\ \A m \in DOMAIN p.exports : m # n => q.exports[m] = p.exports[m]
  BY <1>1 DEF PlanOK
<1>3. \A m \in DOMAIN p.exports : q.exports[m].signature = p.exports[m].signature
  BY <1>2
<1>4. q.exports \in [DOMAIN q.exports -> Export]
  BY <1>1, <1>2 DEF PlanOK
<1>5. \A b : CallsMatch(p, b) => CallsMatch(q, b)
  BY <1>2, <1>3 DEF CallsMatch
<1>6. \A m \in DOMAIN q.exports :
        /\ q.exports[m].definition_index # NoDefinition => q.exports[m].blocks # <<>>
        /\ \A i \in DOMAIN q.exports[m].blocks : CallsMatch(q, q.exports[m].blocks[i])
  BY <1>2, <1>5 DEF PlanOK
<1>7. \A m \in DOMAIN q.callables :
        /\ q.callables[m].ends = "ret"
        /\ \A c \in q.callables[m].calls :
             c.name \in DOMAIN q.callables /\ q.exports[c.name].signature = c.signature
  BY <1>1, <1>3 DEF PlanOK
<1>8. DOMAIN q.exports \subseteq ExportNames /\ DOMAIN q.callables \subseteq DOMAIN q.exports
  BY <1>1, <1>2 DEF PlanOK
<1> QED BY <1>1, <1>2, <1>4, <1>6, <1>7, <1>8 DEF PlanOK

\* The innermost body and its block.
LEMMA OpenBlock ==
  ASSUME PlanShape, InBody
  PROVE  /\ Len(env.open) \in DOMAIN env.open
         /\ Body.name \in Declared /\ Body.index \in DOMAIN memory.exports[Body.name].blocks
         /\ memory.exports[Body.name] \in Export
         /\ BodyBlock \in BodyBlocks /\ CallsMatch(memory, BodyBlock)
<1>1. Len(env.open) \in DOMAIN env.open
  BY DEF PlanShape, OpenOK, InBody
<1>2. Body.name \in Declared /\ Body.index \in DOMAIN memory.exports[Body.name].blocks
  BY <1>1 DEF PlanShape, OpenOK, Body, Declared
<1>3. memory.exports[Body.name] \in Export
  BY <1>2 DEF PlanShape, PlanOK, Declared
<1>4. BodyBlock \in BodyBlocks
  BY <1>2, <1>3 DEF BodyBlock, Export
<1>5. CallsMatch(memory, BodyBlock)
  BY <1>2 DEF PlanShape, PlanOK, Declared, BodyBlock
<1> QED BY <1>1, <1>2, <1>3, <1>4, <1>5

\* Writing the innermost body's block.
LEMMA EmitKeeps ==
  ASSUME PlanShape, InBody, NEW blk \in BodyBlocks, CallsMatch(memory, blk)
  PROVE  /\ PlanOK(Emit(blk))
         /\ OpenOK(Emit(blk), env.open)
         /\ Emit(blk).exports[Body.name].blocks # <<>>
<1> DEFINE n == Body.name
           old == memory.exports[n]
           blocks == [old.blocks EXCEPT ![Body.index] = blk]
           e == [old EXCEPT !.blocks = blocks]
           q == Emit(blk)
<1>1. n \in DOMAIN memory.exports /\ Body.index \in DOMAIN old.blocks /\ old \in Export
  BY OpenBlock DEF Declared
<1>2. q = Replaced(memory, n, e, memory.definition_counter)
  <2>1. q = [memory EXCEPT !.exports = [memory.exports EXCEPT ![n] = e]]
    BY DEF Emit
  <2> QED BY <2>1 DEF PlanShape, PlanOK, Replaced
<1>3. old.blocks \in Seq(BodyBlocks)
  <2> HIDE DEF old
  <2> QED BY <1>1 DEF Export
<1>4. blocks \in Seq(BodyBlocks) /\ DOMAIN blocks = DOMAIN old.blocks /\ blocks # <<>>
  <2> HIDE DEF old
  <2> QED BY <1>1, <1>3
<1>5. e \in Export /\ e.signature = old.signature /\ e.blocks = blocks
  <2> HIDE DEF old, blocks
  <2> QED BY <1>1, <1>4 DEF Export
<1>6. \A i \in DOMAIN old.blocks : CallsMatch(memory, old.blocks[i])
  BY <1>1 DEF PlanShape, PlanOK
<1>7. \A i \in DOMAIN blocks : CallsMatch(memory, blocks[i])
  <2> HIDE DEF old
  <2> QED BY <1>3, <1>4, <1>6
<1>8. PlanOK(memory) /\ memory.definition_counter \in Nat
  BY DEF PlanShape, PlanOK
<1> HIDE DEF n, old, blocks, e, q
<1>9. /\ PlanOK(q)
      /\ DOMAIN q.exports = DOMAIN memory.exports
      /\ q.exports[n] = e
      /\ \A m \in DOMAIN memory.exports : m # n => q.exports[m] = memory.exports[m]
  <2>1. Fits(memory, n, e)
    BY <1>1, <1>4, <1>5, <1>7 DEF old, Fits
  <2> QED BY <1>2, <1>8, <2>1, ReplaceExport
<1>10. \A m \in DOMAIN memory.exports :
         DOMAIN q.exports[m].blocks = DOMAIN memory.exports[m].blocks
  BY <1>4, <1>5, <1>9 DEF old
<1>11. OpenOK(q, env.open)
  BY <1>9, <1>10 DEF PlanShape, OpenOK
<1>12. q.exports[n].blocks # <<>>
  BY <1>4, <1>5, <1>9
<1> QED BY <1>9, <1>11, <1>12 DEF q, n

\* Marking an export that has a body as defined.
LEMMA MarkKeeps ==
  ASSUME NEW p, PlanOK(p), NEW open, OpenOK(p, open),
         NEW n \in DOMAIN p.exports, p.exports[n].blocks # <<>>
  PROVE  PlanOK(Mark(p, n)) /\ OpenOK(Mark(p, n), open)
<1> DEFINE e == [p.exports[n] EXCEPT !.definition_index = p.definition_counter]
           q == Mark(p, n)
<1>1. q = Replaced(p, n, e, p.definition_counter + 1)
  <2>1. q = [p EXCEPT !.exports = [p.exports EXCEPT ![n] = e],
                      !.definition_counter = p.definition_counter + 1]
    BY DEF Mark
  <2> QED BY <2>1 DEF Replaced
<1>2. p.exports[n] \in Export /\ p.definition_counter \in Nat
  BY DEF PlanOK
<1>3. e \in Export /\ e.signature = p.exports[n].signature /\ e.blocks = p.exports[n].blocks
  BY <1>2 DEF Export
<1>4. \A i \in DOMAIN p.exports[n].blocks : CallsMatch(p, p.exports[n].blocks[i])
  BY DEF PlanOK
<1> HIDE DEF e, q
<1>5. Fits(p, n, e)
  BY <1>3, <1>4 DEF Fits
<1>6. p.definition_counter + 1 \in Nat
  BY <1>2
<1>7. /\ PlanOK(q)
      /\ DOMAIN q.exports = DOMAIN p.exports
      /\ q.exports[n] = e
      /\ \A m \in DOMAIN p.exports : m # n => q.exports[m] = p.exports[m]
  BY <1>1, <1>5, <1>6, ReplaceExport
<1>8. \A m \in DOMAIN p.exports : DOMAIN q.exports[m].blocks = DOMAIN p.exports[m].blocks
  BY <1>3, <1>7
<1>9. OpenOK(q, open)
  BY <1>7, <1>8 DEF OpenOK
<1> QED BY <1>7, <1>9 DEF q

\* Fewer open bodies are still in place.
LEMMA LeaveKeeps ==
  ASSUME NEW p, NEW open, OpenOK(p, open), open # <<>>
  PROVE  OpenOK(p, SubSeq(open, 1, Len(open) - 1))
<1> DEFINE rest == SubSeq(open, 1, Len(open) - 1)
<1>1. open \in Seq(OpenBody) /\ Len(open) \in Nat /\ Len(open) >= 1
  BY DEF OpenOK
<1>2. /\ rest \in Seq(OpenBody)
      /\ DOMAIN rest = 1 .. Len(open) - 1 /\ DOMAIN open = 1 .. Len(open)
      /\ \A i \in 1 .. Len(open) - 1 : rest[i] = open[i]
  BY <1>1
<1> HIDE DEF rest
<1>3. \A i \in DOMAIN rest : i \in DOMAIN open /\ rest[i] = open[i]
  BY <1>1, <1>2
<1>4. OpenOK(p, rest)
  BY <1>2, <1>3 DEF OpenOK
<1> QED BY <1>4 DEF rest

\* declare: a new export, without a body, that no call is to yet.
LEMMA DeclareKeeps ==
  ASSUME PlanShape, NEW name \in ExportNames, NEW signature \in ExportSignatures,
         declare(name, signature)
  PROVE  PlanShape'
<1>1. CASE Raises
  BY <1>1 DEF Raises, Planning, PlanShape
<1>2. CASE name \notin Declared /\ ~Raises
  <2> DEFINE new == [signature |-> signature, definition_index |-> NoDefinition, blocks |-> <<>>]
  <2>1. /\ memory' = [memory EXCEPT !.exports =
                        [n \in Declared \cup {name} |-> IF n = name THEN new ELSE @[n]]]
        /\ env' = env /\ call' = call
    BY <1>2 DEF declare, Succeed, Planning
  <2>2. /\ memory'.exports = [n \in Declared \cup {name} |->
                                IF n = name THEN new ELSE memory.exports[n]]
        /\ memory'.definition_counter = memory.definition_counter
        /\ memory'.callables = memory.callables
        /\ memory' = [exports |-> memory'.exports, definition_counter |-> memory'.definition_counter,
                      finalized |-> memory'.finalized, callables |-> memory'.callables]
    BY <2>1 DEF PlanShape, PlanOK
  <2>3. /\ new \in Export /\ new.definition_index = NoDefinition /\ new.blocks = <<>>
    BY DEF Export, NoDefinition
  <2> HIDE DEF new
  <2>4. /\ DOMAIN memory'.exports = Declared \cup {name}
        /\ memory'.exports[name] = new
        /\ \A n \in Declared : memory'.exports[n] = memory.exports[n]
    BY <1>2, <2>2
  <2>5. memory'.exports \in [DOMAIN memory'.exports -> Export]
    BY <2>2, <2>3, <2>4 DEF PlanShape, PlanOK, Declared
  <2>6. \A b : CallsMatch(memory, b) => CallsMatch(memory', b)
    BY <2>4 DEF CallsMatch, Declared
  <2>7. DOMAIN new.blocks = {}
    BY <2>3
  <2>8. \A n \in DOMAIN memory'.exports :
          /\ memory'.exports[n].definition_index # NoDefinition => memory'.exports[n].blocks # <<>>
          /\ \A i \in DOMAIN memory'.exports[n].blocks : CallsMatch(memory', memory'.exports[n].blocks[i])
    <3> TAKE n \in DOMAIN memory'.exports
    <3>1. CASE n = name
      BY <2>3, <2>4, <2>7, <3>1
    <3>2. CASE n \in Declared
      BY <2>4, <2>6, <3>2 DEF PlanShape, PlanOK, Declared
    <3> QED BY <2>4, <3>1, <3>2
  <2>9. \A n \in DOMAIN memory'.callables :
          /\ memory'.callables[n].ends = "ret"
          /\ \A c \in memory'.callables[n].calls :
               /\ c.name \in DOMAIN memory'.callables
               /\ memory'.exports[c.name].signature = c.signature
    BY <2>2, <2>4 DEF PlanShape, PlanOK, Declared
  <2>10. /\ DOMAIN memory'.exports \subseteq ExportNames
         /\ DOMAIN memory'.callables \subseteq DOMAIN memory'.exports
         /\ memory'.definition_counter \in Nat
    BY <2>2, <2>4 DEF PlanShape, PlanOK, Declared
  <2>11. PlanOK(memory')
    BY <2>2, <2>5, <2>8, <2>9, <2>10 DEF PlanOK
  <2>12. OpenOK(memory', env.open)
    BY <2>4 DEF PlanShape, OpenOK, Declared
  <2> QED BY <2>1, <2>11, <2>12 DEF PlanShape
<1> QED BY <1>1, <1>2 DEF declare

\* reopen: the call is to a declared export of the signature it is emitted for.
LEMMA ReopenKeeps ==
  ASSUME PlanShape, NEW name \in ExportNames, NEW signature \in ExportSignatures,
         reopen(name, signature)
  PROVE  PlanShape'
<1> DEFINE c == [name |-> name, signature |-> signature]
           blk == [BodyBlock EXCEPT !.calls = @ \cup {c}]
<1>1. CASE Raises \/ Succeed(memory)
  BY <1>1 DEF Raises, Succeed, Planning, PlanShape
<1>2. CASE /\ name \in Declared /\ memory.exports[name].signature = signature
           /\ InBody /\ Succeed(Emit(blk))
  <2>1. BodyBlock \in BodyBlocks /\ CallsMatch(memory, BodyBlock)
    BY <1>2, OpenBlock
  <2>2. c \in Call
    BY DEF Call
  <2>3. blk \in BodyBlocks /\ blk.calls = BodyBlock.calls \cup {c}
    <3> HIDE DEF c
    <3> QED BY <2>1, <2>2 DEF BodyBlocks
  <2>4. CallsMatch(memory, blk)
    <3> HIDE DEF blk
    <3> QED BY <1>2, <2>1, <2>3 DEF CallsMatch, Declared
  <2> HIDE DEF blk
  <2>5. PlanOK(Emit(blk)) /\ OpenOK(Emit(blk), env.open)
    BY <1>2, <2>3, <2>4, EmitKeeps
  <2> QED BY <1>2, <2>5 DEF Succeed, Planning, PlanShape
<1> QED BY <1>1, <1>2 DEF reopen

\* The emitter's ret.
LEMMA RetKeeps ==
  ASSUME PlanShape, emit_ret
  PROVE  PlanShape'
<1> DEFINE blk == [BodyBlock EXCEPT !.ends = "ret"]
<1>1. InBody /\ Succeed(Emit(blk))
  BY DEF emit_ret
<1>2. BodyBlock \in BodyBlocks /\ CallsMatch(memory, BodyBlock)
  BY <1>1, OpenBlock
<1>3. blk \in BodyBlocks /\ blk.calls = BodyBlock.calls
  BY <1>2 DEF BodyBlocks
<1> HIDE DEF blk
<1>4. PlanOK(Emit(blk)) /\ OpenOK(Emit(blk), env.open)
  BY <1>1, <1>2, <1>3, EmitKeeps DEF CallsMatch
<1> QED BY <1>1, <1>4 DEF Succeed, Planning, PlanShape

\* Entering a body appends an empty block.
LEMMA BeginKeeps ==
  ASSUME PlanShape, NEW name \in ExportNames, define_begin(name)
  PROVE  PlanShape'
<1>1. CASE Raises
  BY <1>1 DEF Raises, Planning, PlanShape
<1>2. CASE name \in Declared /\ ~Raises
  <2> DEFINE old == memory.exports[name]
             blk == [calls |-> {}, ends |-> "open", body |-> "begun"]
             blocks == Append(old.blocks, blk)
             e == [old EXCEPT !.blocks = blocks]
             body == [name |-> name, index |-> Len(old.blocks) + 1]
  <2>1. /\ call' = call
        /\ memory' = [memory EXCEPT !.exports[name].blocks = Append(@, blk)]
        /\ env' = [open |-> Append(env.open, body)]
    BY <1>2 DEF define_begin, Planning
  <2>2. old \in Export
    BY <1>2 DEF PlanShape, PlanOK, Declared
  <2>3. old.blocks \in Seq(BodyBlocks)
    <3> HIDE DEF old
    <3> QED BY <2>2 DEF Export
  <2>4. blk \in BodyBlocks /\ CallsMatch(memory, blk)
    BY DEF BodyBlocks, CallsMatch
  <2>5. /\ blocks \in Seq(BodyBlocks) /\ Len(old.blocks) \in Nat
        /\ DOMAIN blocks = 1 .. Len(old.blocks) + 1 /\ DOMAIN old.blocks = 1 .. Len(old.blocks)
        /\ blocks # <<>>
        /\ blocks[Len(old.blocks) + 1] = blk
        /\ \A i \in 1 .. Len(old.blocks) : blocks[i] = old.blocks[i]
    <3> HIDE DEF old, blk
    <3> QED BY <2>3, <2>4
  <2>6. e \in Export /\ e.signature = old.signature /\ e.blocks = blocks
    <3> HIDE DEF old, blocks
    <3> QED BY <2>2, <2>5 DEF Export
  <2>7. memory' = Replaced(memory, name, e, memory.definition_counter)
    <3>1. memory' = [memory EXCEPT !.exports = [memory.exports EXCEPT ![name] = e]]
      BY <2>1
    <3> QED BY <3>1 DEF PlanShape, PlanOK, Replaced
  <2>8. \A i \in DOMAIN old.blocks : CallsMatch(memory, old.blocks[i])
    BY <1>2 DEF PlanShape, PlanOK, Declared
  <2> HIDE DEF blk, blocks, e
  <2>9. \A i \in DOMAIN blocks : CallsMatch(memory, blocks[i])
    <3> HIDE DEF old
    <3> TAKE i \in DOMAIN blocks
    <3>1. CASE i = Len(old.blocks) + 1
      BY <2>4, <2>5, <3>1
    <3>2. CASE i \in 1 .. Len(old.blocks)
      BY <2>5, <2>8, <3>2
    <3> QED BY <2>5, <3>1, <3>2
  <2>10. Fits(memory, name, e)
    BY <1>2, <2>5, <2>6, <2>9 DEF Fits, Declared
  <2>11. PlanOK(memory) /\ memory.definition_counter \in Nat
    BY DEF PlanShape, PlanOK
  <2>12. /\ PlanOK(memory')
         /\ DOMAIN memory'.exports = DOMAIN memory.exports
         /\ memory'.exports[name] = e
         /\ \A m \in DOMAIN memory.exports : m # name => memory'.exports[m] = memory.exports[m]
    BY <2>7, <2>10, <2>11, ReplaceExport
  <2>13. \A m \in DOMAIN memory.exports :
           DOMAIN memory.exports[m].blocks \subseteq DOMAIN memory'.exports[m].blocks
    BY <2>5, <2>6, <2>12
  <2>14. /\ body \in OpenBody /\ body.name \in DOMAIN memory'.exports
         /\ body.index \in DOMAIN memory'.exports[body.name].blocks
    <3>1. Len(old.blocks) + 1 \in DOMAIN memory'.exports[name].blocks
      BY <2>5, <2>6, <2>12
    <3>2. Len(old.blocks) + 1 \in Nat
      BY <2>5
    <3> HIDE DEF old
    <3> QED BY <1>2, <2>12, <3>1, <3>2 DEF OpenBody, Declared
  <2> HIDE DEF body
  <2>15. /\ env.open \in Seq(OpenBody)
         /\ \A i \in DOMAIN env.open :
              /\ env.open[i].name \in DOMAIN memory'.exports
              /\ env.open[i].index \in DOMAIN memory'.exports[env.open[i].name].blocks
    BY <2>12, <2>13 DEF PlanShape, OpenOK
  <2>16. /\ env'.open \in Seq(OpenBody) /\ Len(env.open) \in Nat
         /\ DOMAIN env'.open = 1 .. Len(env.open) + 1 /\ DOMAIN env.open = 1 .. Len(env.open)
         /\ env'.open[Len(env.open) + 1] = body
         /\ \A i \in 1 .. Len(env.open) : env'.open[i] = env.open[i]
    BY <2>1, <2>14, <2>15
  <2>17. ASSUME NEW i \in DOMAIN env'.open
         PROVE  /\ env'.open[i].name \in DOMAIN memory'.exports
                /\ env'.open[i].index \in DOMAIN memory'.exports[env'.open[i].name].blocks
    <3>1. CASE i = Len(env.open) + 1
      BY <2>14, <2>16, <3>1
    <3>2. CASE i \in 1 .. Len(env.open)
      <4>1. env'.open[i] = env.open[i] /\ i \in DOMAIN env.open
        BY <2>16, <3>2
      <4> QED BY <2>15, <4>1
    <3> QED BY <2>16, <3>1, <3>2
  <2>18. OpenOK(memory', env'.open)
    BY <2>16, <2>17 DEF OpenOK
  <2> QED BY <2>1, <2>12, <2>18 DEF PlanShape
<1> QED BY <1>1, <1>2 DEF define_begin

\* A block keeps its calls when its body is left.
LEMMA LeaveBlockKeeps ==
  ASSUME PlanShape, InBody, NEW how \in {"begun", "finished", "abandoned"}
  PROVE  /\ PlanOK(LeaveBlock(how))
         /\ OpenOK(LeaveBlock(how), env.open)
         /\ LeaveBlock(how).exports[Body.name].blocks # <<>>
<1> DEFINE blk == [BodyBlock EXCEPT !.body = how]
<1>1. BodyBlock \in BodyBlocks /\ CallsMatch(memory, BodyBlock)
  BY OpenBlock
<1>2. blk \in BodyBlocks /\ blk.calls = BodyBlock.calls
  BY <1>1 DEF BodyBlocks
<1>3. LeaveBlock(how) = Emit(blk)
  BY DEF LeaveBlock
<1> HIDE DEF blk
<1>4. CallsMatch(memory, blk)
  BY <1>1, <1>2 DEF CallsMatch
<1> QED BY <1>2, <1>3, <1>4, EmitKeeps

\* Leaving a body, by its end or by an exception.
LEMMA EndKeeps ==
  ASSUME PlanShape, define_end \/ define_raises
  PROVE  PlanShape'
<1>1. InBody /\ call' = call /\ Leave
  BY DEF define_end, define_raises, Planning
<1>2. CASE define_end
  <2> DEFINE p == LeaveBlock("finished")
  <2>1. /\ PlanOK(p) /\ OpenOK(p, env.open)
        /\ p.exports[Body.name].blocks # <<>>
    BY <1>1, LeaveBlockKeeps
  <2>2. Body.name \in DOMAIN p.exports
    BY <1>1, <2>1, OpenBlock DEF OpenOK, Body
  <2>3. memory' = Mark(p, Body.name)
    BY <1>2 DEF define_end
  <2> HIDE DEF p
  <2>4. PlanOK(memory') /\ OpenOK(memory', env.open)
    BY <2>1, <2>2, <2>3, MarkKeeps
  <2>5. OpenOK(memory', env'.open)
    BY <1>1, <2>4, LeaveKeeps DEF Leave, InBody
  <2> QED BY <1>1, <2>4, <2>5 DEF PlanShape, Leave
<1>3. CASE define_raises
  <2>1. memory' = LeaveBlock("abandoned")
    BY <1>3 DEF define_raises
  <2>2. PlanOK(memory') /\ OpenOK(memory', env.open)
    BY <1>1, <2>1, LeaveBlockKeeps
  <2>3. OpenOK(memory', env'.open)
    BY <1>1, <2>2, LeaveKeeps DEF Leave, InBody
  <2> QED BY <1>1, <2>2, <2>3 DEF PlanShape, Leave
<1> QED BY <1>2, <1>3

\* finalize: with nothing missing and the module verified, every export has an entry block that
\* returns, and every call of it is to an export.
LEMMA FinalizeKeeps ==
  ASSUME PlanShape, finalize
  PROVE  PlanShape'
<1>1. CASE Raises \/ Succeed(memory)
  BY <1>1 DEF Raises, Succeed, Planning, PlanShape
<1>2. CASE missing_definitions = {} /\ Verifies /\ ~Raises /\ ~Succeed(memory)
  <2>1. /\ memory' = [memory EXCEPT !.finalized = TRUE,
                                    !.callables = [n \in Declared |-> EntryBlock(n)]]
        /\ env' = env /\ call' = call
    BY <1>2 DEF finalize, Succeed, Planning
  <2>2. /\ memory'.exports = memory.exports
        /\ memory'.definition_counter = memory.definition_counter
        /\ memory'.callables = [n \in Declared |-> EntryBlock(n)]
        /\ memory' = [exports |-> memory'.exports, definition_counter |-> memory'.definition_counter,
                      finalized |-> memory'.finalized, callables |-> memory'.callables]
    BY <2>1 DEF PlanShape, PlanOK
  <2>3. ASSUME NEW n \in Declared
        PROVE  EntryBlock(n).ends = "ret" /\ CallsMatch(memory, EntryBlock(n))
    <3>1. memory.exports[n].blocks # <<>>
      BY <1>2 DEF missing_definitions, PlanShape, PlanOK, Declared
    <3>2. memory.exports[n].blocks \in Seq(BodyBlocks)
      BY DEF PlanShape, PlanOK, Declared, Export
    <3>3. 1 \in DOMAIN memory.exports[n].blocks
      BY <3>1, <3>2
    <3>4. EntryBlock(n) = memory.exports[n].blocks[1]
      BY <3>1 DEF EntryBlock
    <3> QED BY <1>2, <3>3, <3>4 DEF Verifies, PlanShape, PlanOK, Declared
  <2>4. \A n \in DOMAIN memory'.callables :
          /\ memory'.callables[n].ends = "ret"
          /\ \A c \in memory'.callables[n].calls :
               /\ c.name \in DOMAIN memory'.callables
               /\ memory'.exports[c.name].signature = c.signature
    <3> TAKE n \in DOMAIN memory'.callables
    <3>1. n \in Declared /\ memory'.callables[n] = EntryBlock(n)
      BY <2>2
    <3> QED BY <2>2, <2>3, <3>1 DEF CallsMatch, Declared
  <2>5. \A b : CallsMatch(memory', b) <=> CallsMatch(memory, b)
    BY <2>2 DEF CallsMatch
  <2>6. PlanOK(memory')
    BY <2>2, <2>4, <2>5 DEF PlanShape, PlanOK, Declared
  <2>7. OpenOK(memory', env.open)
    BY <2>2 DEF PlanShape, OpenOK
  <2> QED BY <2>1, <2>6, <2>7 DEF PlanShape
<1> QED BY <1>1, <1>2 DEF finalize

\* A plan begins with nothing declared.
LEMMA ShapeInitial == PlanInit => PlanShape
<1> SUFFICES ASSUME PlanInit PROVE PlanShape
  OBVIOUS
<1>1. DOMAIN memory.exports = {} /\ DOMAIN memory.callables = {}
  BY DEF PlanInit
<1>2. /\ memory = [exports |-> memory.exports, definition_counter |-> memory.definition_counter,
                    finalized |-> memory.finalized, callables |-> memory.callables]
      /\ memory.definition_counter \in Nat /\ memory.exports = <<>>
  BY DEF PlanInit
<1>3. memory.exports \in [DOMAIN memory.exports -> Export]
  BY <1>1, <1>2
<1>4. PlanOK(memory)
  BY <1>1, <1>2, <1>3 DEF PlanOK
<1>5. env.open = <<>> /\ env = [open |-> env.open] /\ call.fn = PlanFn
  BY DEF PlanInit
<1>6. OpenOK(memory, env.open)
  BY <1>5 DEF OpenOK
<1> QED BY <1>4, <1>5, <1>6 DEF PlanShape

\* Every call on the plan keeps PlanShape.
LEMMA ShapeKeeps == PlanShape /\ [PlanNext]_vars => PlanShape'
<1> SUFFICES ASSUME PlanShape, [PlanNext]_vars PROVE PlanShape'
  OBVIOUS
<1>1. CASE UNCHANGED vars
  BY <1>1 DEF vars, PlanShape
<1>2. ASSUME NEW name \in ExportNames, call_i64(name) PROVE PlanShape'
  BY <1>2 DEF call_i64, Raises, Succeed, Planning, PlanShape
<1>3. CASE PlanNext
  BY <1>2, <1>3, RetKeeps, EndKeeps, FinalizeKeeps, BeginKeeps, DeclareKeeps, ReopenKeeps DEF PlanNext
<1> QED BY <1>1, <1>3

(***************************************************************************)
(* How the bodies ended.  An export begun once and defined has a body that *)
(* ran to its end: the bodies still open are begun, each is open once, so  *)
(* that an exception through one leaves the finished ones as they are.     *)
(***************************************************************************)
Marked(p, open) ==
  /\ \A n \in DOMAIN p.exports :
       p.exports[n].definition_index # NoDefinition /\ 2 \notin DOMAIN p.exports[n].blocks
         => p.exports[n].blocks[1].body = "finished"
  /\ \A n \in DOMAIN p.callables :
       /\ p.exports[n].definition_index # NoDefinition
       /\ p.callables[n].body = "finished" \/ 2 \in DOMAIN p.exports[n].blocks
  /\ \A i \in DOMAIN open : p.exports[open[i].name].blocks[open[i].index].body = "begun"
  /\ \A i, j \in DOMAIN open :
       open[i].name = open[j].name /\ open[i].index = open[j].index => i = j
PlanInv == PlanShape /\ Marked(memory, env.open)

\* The exports are as they were and the same bodies are open.
LEMMA MarkedAlike ==
  ASSUME Marked(memory, env.open), env' = env, DOMAIN memory.callables \subseteq Declared,
         memory'.callables = memory.callables, Declared \subseteq Declared',
         OpenOK(memory, env.open),
         \A n \in Declared : memory'.exports[n] = memory.exports[n],
         \A n \in Declared' \ Declared : memory'.exports[n].definition_index = NoDefinition
  PROVE  Marked(memory', env'.open)
<1>1. \A i \in DOMAIN env.open : env.open[i].name \in Declared
  BY DEF OpenOK, Declared
<1> QED BY <1>1 DEF Marked, Declared

\* What writing the innermost body's block changes.
LEMMA BlockWritten ==
  ASSUME PlanShape, InBody, NEW blk
  PROVE  LET p == Emit(blk) IN
         /\ p.callables = memory.callables /\ p.definition_counter = memory.definition_counter
         /\ DOMAIN p.exports = Declared
         /\ \A n \in Declared :
              /\ p.exports[n].definition_index = memory.exports[n].definition_index
              /\ DOMAIN p.exports[n].blocks = DOMAIN memory.exports[n].blocks
              /\ \A i \in DOMAIN memory.exports[n].blocks :
                   p.exports[n].blocks[i] =
                     IF n = Body.name /\ i = Body.index THEN blk ELSE memory.exports[n].blocks[i]
<1> DEFINE p == Emit(blk)
           old == memory.exports[Body.name]
           e == [old EXCEPT !.blocks = [old.blocks EXCEPT ![Body.index] = blk]]
<1>1. p = [memory EXCEPT !.exports = [memory.exports EXCEPT ![Body.name] = e]]
  BY DEF Emit
<1>2. Body.name \in Declared /\ old \in Export
  BY OpenBlock
<1>3. /\ e.definition_index = old.definition_index
      /\ DOMAIN e.blocks = DOMAIN old.blocks
      /\ \A i \in DOMAIN old.blocks : e.blocks[i] = IF i = Body.index THEN blk ELSE old.blocks[i]
  <2> HIDE DEF old
  <2> QED BY <1>2 DEF Export
<1> HIDE DEF e
<1>4. /\ p.exports = [memory.exports EXCEPT ![Body.name] = e]
      /\ p.callables = memory.callables /\ p.definition_counter = memory.definition_counter
  BY <1>1 DEF PlanShape, PlanOK
<1>5. /\ DOMAIN p.exports = Declared
      /\ \A n \in Declared : p.exports[n] = IF n = Body.name THEN e ELSE memory.exports[n]
  BY <1>4 DEF Declared
<1> HIDE DEF p
<1>6. ASSUME NEW n \in Declared
      PROVE  /\ p.exports[n].definition_index = memory.exports[n].definition_index
             /\ DOMAIN p.exports[n].blocks = DOMAIN memory.exports[n].blocks
             /\ \A i \in DOMAIN memory.exports[n].blocks :
                  p.exports[n].blocks[i] =
                    IF n = Body.name /\ i = Body.index THEN blk ELSE memory.exports[n].blocks[i]
  <2>1. CASE n = Body.name
    BY <1>3, <1>5, <2>1
  <2>2. CASE n # Body.name
    BY <1>5, <2>2
  <2> QED BY <2>1, <2>2
<1> QED BY <1>4, <1>5, <1>6 DEF p

\* The body being defined is begun.
LEMMA OpenBegun ==
  ASSUME PlanInv, InBody
  PROVE  memory.exports[Body.name].blocks[Body.index].body = "begun"
<1>1. /\ Len(env.open) \in DOMAIN env.open
      /\ \A i \in DOMAIN env.open : memory.exports[env.open[i].name].blocks[env.open[i].index].body = "begun"
  BY OpenBlock DEF PlanInv, Marked
<1> QED BY <1>1, Zenon DEF Body

\* A block of a body that is still begun is written: what is finished stays finished.
LEMMA EmitMarks ==
  ASSUME PlanInv, InBody, NEW blk, blk.body = "begun", Succeed(Emit(blk))
  PROVE  Marked(memory', env'.open)
<1>1. /\ memory' = Emit(blk) /\ env' = env
      /\ Body = env.open[Len(env.open)] /\ Len(env.open) \in DOMAIN env.open
      /\ Marked(memory, env.open) /\ OpenOK(memory, env.open) /\ DOMAIN memory.callables \subseteq Declared
  BY OpenBlock DEF PlanInv, PlanShape, PlanOK, Succeed, Body, Declared
<1>2. PlanShape
  BY DEF PlanInv
<1>3. /\ memory'.callables = memory.callables /\ DOMAIN memory'.exports = Declared
      /\ \A n \in Declared :
           /\ memory'.exports[n].definition_index = memory.exports[n].definition_index
           /\ DOMAIN memory'.exports[n].blocks = DOMAIN memory.exports[n].blocks
           /\ \A i \in DOMAIN memory.exports[n].blocks :
                memory'.exports[n].blocks[i] =
                  IF n = Body.name /\ i = Body.index THEN blk ELSE memory.exports[n].blocks[i]
  BY <1>1, <1>2, BlockWritten
<1>4. memory.exports[Body.name].blocks[Body.index].body = "begun"
  BY OpenBegun
<1>5. \A n \in Declared : \A i \in DOMAIN memory.exports[n].blocks :
        memory'.exports[n].blocks[i].body = memory.exports[n].blocks[i].body
  BY <1>3, <1>4
<1>6. \A n \in Declared : memory.exports[n].definition_index # NoDefinition =>
        1 \in DOMAIN memory.exports[n].blocks
  BY <1>2 DEF PlanShape, PlanOK, Export, Declared
<1>7. ASSUME NEW n \in Declared, memory'.exports[n].definition_index # NoDefinition,
             2 \notin DOMAIN memory'.exports[n].blocks
      PROVE  memory'.exports[n].blocks[1].body = "finished"
  BY <1>1, <1>3, <1>5, <1>6, <1>7 DEF Marked, Declared
<1>8. \A i \in DOMAIN env.open :
        memory'.exports[env.open[i].name].blocks[env.open[i].index].body = "begun"
  BY <1>1, <1>5 DEF Marked, OpenOK, Declared
<1>9. \A n \in DOMAIN memory'.callables :
        /\ memory'.exports[n].definition_index # NoDefinition
        /\ memory'.callables[n].body = "finished" \/ 2 \in DOMAIN memory'.exports[n].blocks
  BY <1>1, <1>3 DEF Marked
<1>10. /\ env'.open = env.open
       /\ \A i, j \in DOMAIN env.open :
            env.open[i].name = env.open[j].name /\ env.open[i].index = env.open[j].index => i = j
  BY <1>1 DEF Marked
<1>11. \A n \in DOMAIN memory'.exports :
         memory'.exports[n].definition_index # NoDefinition /\ 2 \notin DOMAIN memory'.exports[n].blocks
           => memory'.exports[n].blocks[1].body = "finished"
  BY <1>3, <1>7
<1> QED BY <1>8, <1>9, <1>10, <1>11, Zenon DEF Marked

\* Fewer bodies are open, each as it was and none of them the innermost.
LEMMA LeaveRest ==
  ASSUME PlanInv, InBody, Leave
  PROVE  \A i \in DOMAIN env'.open :
           /\ i \in DOMAIN env.open /\ env'.open[i] = env.open[i]
           /\ ~(env.open[i].name = Body.name /\ env.open[i].index = Body.index)
<1>1. /\ env.open \in Seq(OpenBody) /\ Len(env.open) \in Nat /\ Len(env.open) >= 1
      /\ env'.open = SubSeq(env.open, 1, Len(env.open) - 1)
      /\ Body = env.open[Len(env.open)] /\ Len(env.open) \in DOMAIN env.open
  BY OpenBlock DEF PlanInv, PlanShape, OpenOK, InBody, Leave, Body
<1>2. /\ DOMAIN env'.open = 1 .. Len(env.open) - 1 /\ DOMAIN env.open = 1 .. Len(env.open)
      /\ \A i \in 1 .. Len(env.open) - 1 : env'.open[i] = env.open[i]
  BY <1>1
<1>3. \A i \in DOMAIN env'.open : i \in DOMAIN env.open /\ env'.open[i] = env.open[i] /\ i # Len(env.open)
  BY <1>1, <1>2
<1>4. \A i, j \in DOMAIN env.open :
        env.open[i].name = env.open[j].name /\ env.open[i].index = env.open[j].index => i = j
  BY DEF PlanInv, Marked
<1> QED BY <1>1, <1>3, <1>4

\* Without a second block, a block is the first.
LEMMA FirstBlock ==
  ASSUME NEW S, NEW s \in Seq(S), 2 \notin DOMAIN s, NEW i \in DOMAIN s
  PROVE  i = 1
OBVIOUS

\* A body is left: an export defined with it alone has it finished.
LEMMA EndMarks ==
  ASSUME PlanInv, define_end \/ define_raises
  PROVE  Marked(memory', env'.open)
<1> DEFINE how == IF define_end THEN "finished" ELSE "abandoned"
           blk == [BodyBlock EXCEPT !.body = how]
           p == Emit(blk)
<1>1. /\ InBody /\ Leave /\ PlanShape /\ Marked(memory, env.open)
      /\ Body = env.open[Len(env.open)]
      /\ memory' = IF define_end THEN Mark(p, Body.name) ELSE p
  BY DEF define_end, define_raises, PlanInv, LeaveBlock, Body
<1>2. /\ Len(env.open) \in DOMAIN env.open
      /\ Body.name \in Declared /\ Body.index \in DOMAIN memory.exports[Body.name].blocks
      /\ BodyBlock \in BodyBlocks
  BY <1>1, OpenBlock
<1>3. blk.body = how
  BY <1>2 DEF BodyBlocks
<1> HIDE DEF blk
<1>4. /\ p.callables = memory.callables /\ p.definition_counter = memory.definition_counter
      /\ DOMAIN p.exports = Declared
      /\ \A n \in Declared :
           /\ p.exports[n].definition_index = memory.exports[n].definition_index
           /\ DOMAIN p.exports[n].blocks = DOMAIN memory.exports[n].blocks
           /\ \A i \in DOMAIN memory.exports[n].blocks :
                p.exports[n].blocks[i] =
                  IF n = Body.name /\ i = Body.index THEN blk ELSE memory.exports[n].blocks[i]
  BY <1>1, BlockWritten
<1>5. PlanOK(p)
  <2>1. p = LeaveBlock(how)
    BY DEF LeaveBlock, blk
  <2> QED BY <1>1, <2>1, LeaveBlockKeeps
<1> HIDE DEF p
<1>6. /\ memory'.callables = memory.callables /\ DOMAIN memory'.exports = Declared
      /\ \A n \in Declared :
           /\ memory'.exports[n].blocks = p.exports[n].blocks
           /\ ~(define_end /\ n = Body.name) =>
                memory'.exports[n].definition_index = p.exports[n].definition_index
           /\ define_end /\ n = Body.name => memory'.exports[n].definition_index # NoDefinition
  <2>1. CASE ~define_end
    BY <1>1, <1>4, <2>1
  <2>2. CASE define_end
    <3> DEFINE e == [p.exports[Body.name] EXCEPT !.definition_index = p.definition_counter]
    <3>1. memory' = [p EXCEPT !.exports = [p.exports EXCEPT ![Body.name] = e],
                              !.definition_counter = p.definition_counter + 1]
      BY <1>1, <2>2 DEF Mark
    <3>2. p.exports[Body.name] \in Export /\ p.definition_counter \in Nat
      BY <1>2, <1>4, <1>5 DEF PlanOK
    <3>3. e.blocks = p.exports[Body.name].blocks /\ e.definition_index # NoDefinition
      BY <3>2 DEF Export, NoDefinition
    <3> HIDE DEF e
    <3>4. memory'.exports = [p.exports EXCEPT ![Body.name] = e] /\ memory'.callables = p.callables
      BY <1>5, <3>1 DEF PlanOK
    <3>5. \A n \in Declared : memory'.exports[n] = IF n = Body.name THEN e ELSE p.exports[n]
      BY <1>4, <3>4
    <3>6. memory'.callables = memory.callables /\ DOMAIN memory'.exports = Declared
      BY <1>4, <3>4
    <3> QED BY <2>2, <3>3, <3>5, <3>6
  <2> QED BY <2>1, <2>2
<1>7. memory.exports[Body.name].blocks[Body.index].body = "begun"
  BY <1>1, OpenBegun
<1>8. ASSUME NEW n \in Declared, memory'.exports[n].definition_index # NoDefinition,
             2 \notin DOMAIN memory'.exports[n].blocks
      PROVE  memory'.exports[n].blocks[1].body = "finished"
  <2>1. /\ 2 \notin DOMAIN memory.exports[n].blocks
        /\ memory.exports[n].blocks \in Seq(BodyBlocks)
    BY <1>1, <1>4, <1>6, <1>8 DEF PlanShape, PlanOK, Export, Declared
  <2>2. CASE n = Body.name
    <3>1. Body.index = 1
      BY <1>2, <2>1, <2>2, FirstBlock
    <3>2. CASE define_end
      BY <1>2, <1>3, <1>4, <1>6, <2>2, <3>1, <3>2
    <3>3. CASE ~define_end
      <4>1. memory.exports[n].definition_index # NoDefinition
        BY <1>4, <1>6, <1>8, <3>3
      <4>2. memory.exports[n].blocks[1].body = "finished"
        BY <1>1, <2>1, <4>1 DEF Marked, Declared
      <4> QED BY <1>7, <2>2, <3>1, <4>2
    <3> QED BY <3>2, <3>3
  <2>3. CASE n # Body.name
    <3>1. memory.exports[n].definition_index # NoDefinition
      BY <1>4, <1>6, <1>8, <2>3
    <3>2. memory.exports[n].blocks[1].body = "finished" /\ memory.exports[n].blocks # <<>>
      BY <1>1, <2>1, <3>1 DEF Marked, Declared, PlanShape, PlanOK
    <3>3. 1 \in DOMAIN memory.exports[n].blocks
      BY <2>1, <3>2
    <3> QED BY <1>4, <1>6, <2>3, <3>2, <3>3
  <2> QED BY <2>2, <2>3
<1>9. \A n \in DOMAIN memory'.callables :
        /\ memory'.exports[n].definition_index # NoDefinition
        /\ memory'.callables[n].body = "finished" \/ 2 \in DOMAIN memory'.exports[n].blocks
  <2>1. \A n \in DOMAIN memory.callables :
          /\ n \in Declared /\ memory.exports[n].definition_index # NoDefinition
          /\ memory.callables[n].body = "finished" \/ 2 \in DOMAIN memory.exports[n].blocks
    BY <1>1 DEF Marked, PlanShape, PlanOK, Declared
  <2> QED BY <1>4, <1>6, <2>1
<1>10. \A i \in DOMAIN env'.open :
         /\ i \in DOMAIN env.open /\ env'.open[i] = env.open[i]
         /\ ~(env.open[i].name = Body.name /\ env.open[i].index = Body.index)
  BY <1>1, LeaveRest
<1>11. \A i \in DOMAIN env'.open :
         memory'.exports[env'.open[i].name].blocks[env'.open[i].index].body = "begun"
  <2> SUFFICES ASSUME NEW i \in DOMAIN env'.open
               PROVE  memory'.exports[env'.open[i].name].blocks[env'.open[i].index].body = "begun"
    OBVIOUS
  <2>1. /\ env.open[i].name \in Declared
        /\ env.open[i].index \in DOMAIN memory.exports[env.open[i].name].blocks
        /\ memory.exports[env.open[i].name].blocks[env.open[i].index].body = "begun"
    BY <1>1, <1>10 DEF Marked, PlanShape, OpenOK, Declared
  <2> DEFINE n == env.open[i].name
             k == env.open[i].index
  <2>2. ~(n = Body.name /\ k = Body.index) /\ env'.open[i] = env.open[i]
    BY <1>10
  <2> HIDE DEF n, k
  <2>3. n \in Declared /\ k \in DOMAIN memory.exports[n].blocks /\ memory.exports[n].blocks[k].body = "begun"
    BY <2>1, Zenon DEF n, k
  <2>4. memory'.exports[n].blocks[k] = memory.exports[n].blocks[k]
    BY <1>4, <1>6, <2>2, <2>3
  <2> QED BY <2>2, <2>3, <2>4, Zenon DEF n, k
<1>12. \A i, j \in DOMAIN env'.open :
         env'.open[i].name = env'.open[j].name /\ env'.open[i].index = env'.open[j].index => i = j
  BY <1>1, <1>10 DEF Marked
<1> QED BY <1>6, <1>8, <1>9, <1>11, <1>12 DEF Marked

\* A body is entered: its block is behind the ones its export had, so no open body has it yet.
LEMMA BeginMarks ==
  ASSUME PlanInv, NEW name \in ExportNames, define_begin(name)
  PROVE  Marked(memory', env'.open)
<1>1. /\ PlanShape /\ PlanOK(memory) /\ OpenOK(memory, env.open) /\ Marked(memory, env.open)
      /\ DOMAIN memory.callables \subseteq Declared
  BY DEF PlanInv, PlanShape, PlanOK, Declared
<1>2. CASE Raises
  BY <1>1, <1>2, MarkedAlike DEF Raises
<1>3. CASE ~Raises
  <2> DEFINE old == memory.exports[name]
             blk == [calls |-> {}, ends |-> "open", body |-> "begun"]
             e == [old EXCEPT !.blocks = Append(old.blocks, blk)]
             k == Len(old.blocks) + 1
             body == [name |-> name, index |-> k]
  <2>1. /\ name \in Declared /\ old.definition_index = NoDefinition
        /\ memory' = [memory EXCEPT !.exports = [memory.exports EXCEPT ![name] = e]]
        /\ env' = [open |-> Append(env.open, body)]
    BY <1>3 DEF define_begin
  <2>2. old \in Export
    BY <1>1, <2>1 DEF PlanOK, Declared
  <2>3. blk.body = "begun"
    OBVIOUS
  <2> HIDE DEF blk
  <2>4. /\ e.definition_index = old.definition_index
        /\ old.blocks \in Seq(BodyBlocks) /\ k \in Nat /\ k \notin DOMAIN old.blocks
        /\ DOMAIN e.blocks = DOMAIN old.blocks \cup {k}
        /\ e.blocks[k] = blk
        /\ \A i \in DOMAIN old.blocks : e.blocks[i] = old.blocks[i]
    <3> HIDE DEF old
    <3> QED BY <2>2 DEF Export
  <2>5. body.name = name /\ body.index = k
    OBVIOUS
  <2> HIDE DEF e, k, body
  <2>6. /\ memory'.exports = [memory.exports EXCEPT ![name] = e] /\ memory'.callables = memory.callables
    BY <1>1, <2>1 DEF PlanOK
  <2>7. /\ DOMAIN memory'.exports = Declared
        /\ \A n \in Declared : memory'.exports[n] = IF n = name THEN e ELSE memory.exports[n]
    BY <2>6 DEF Declared
  <2> HIDE DEF old
  <2>8. /\ Len(env.open) \in Nat
        /\ DOMAIN env'.open = DOMAIN env.open \cup {Len(env.open) + 1}
        /\ Len(env.open) + 1 \notin DOMAIN env.open
        /\ env'.open[Len(env.open) + 1] = body
        /\ \A i \in DOMAIN env.open : env'.open[i] = env.open[i]
    <3>1. env.open \in Seq(OpenBody) /\ env'.open = Append(env.open, body)
      BY <1>1, <2>1 DEF OpenOK
    <3>2. env.open \in Seq(OpenBody \cup {body})
      BY <3>1
    <3> QED BY <3>1, <3>2
  <2>9. \A n \in DOMAIN memory'.exports :
          memory'.exports[n].definition_index # NoDefinition /\ 2 \notin DOMAIN memory'.exports[n].blocks
            => memory'.exports[n].blocks[1].body = "finished"
    <3> SUFFICES ASSUME NEW n \in Declared, memory'.exports[n].definition_index # NoDefinition,
                        2 \notin DOMAIN memory'.exports[n].blocks
                 PROVE  memory'.exports[n].blocks[1].body = "finished"
      BY <2>7
    <3>1. n # name
      BY <2>1, <2>4, <2>7
    <3> QED BY <1>1, <2>7, <3>1 DEF Marked, Declared
  <2>10. \A n \in DOMAIN memory'.callables :
           /\ memory'.exports[n].definition_index # NoDefinition
           /\ memory'.callables[n].body = "finished" \/ 2 \in DOMAIN memory'.exports[n].blocks
    <3> SUFFICES ASSUME NEW n \in DOMAIN memory.callables
                 PROVE  /\ memory'.exports[n].definition_index # NoDefinition
                        /\ memory'.callables[n].body = "finished" \/ 2 \in DOMAIN memory'.exports[n].blocks
      BY <2>6
    <3>1. /\ n \in Declared /\ memory.exports[n].definition_index # NoDefinition
          /\ memory.callables[n].body = "finished" \/ 2 \in DOMAIN memory.exports[n].blocks
      BY <1>1 DEF Marked
    <3>2. n # name
      BY <2>1, <3>1 DEF old
    <3> QED BY <2>6, <2>7, <3>1, <3>2
  <2>11. ASSUME NEW i \in DOMAIN env.open
         PROVE  /\ memory'.exports[env.open[i].name].blocks[env.open[i].index].body = "begun"
                /\ ~(env.open[i].name = name /\ env.open[i].index = k)
    <3>1. /\ env.open[i].name \in Declared
          /\ env.open[i].index \in DOMAIN memory.exports[env.open[i].name].blocks
          /\ memory.exports[env.open[i].name].blocks[env.open[i].index].body = "begun"
      BY <1>1, <2>11 DEF Marked, OpenOK, Declared
    <3>2. CASE env.open[i].name = name
      BY <2>4, <2>7, <3>1, <3>2 DEF old
    <3>3. CASE env.open[i].name # name
      BY <2>7, <3>1, <3>3
    <3> QED BY <3>2, <3>3
  <2>12. memory'.exports[body.name].blocks[body.index].body = "begun"
    BY <2>1, <2>3, <2>4, <2>5, <2>7
  <2>13. \A i \in DOMAIN env'.open :
           memory'.exports[env'.open[i].name].blocks[env'.open[i].index].body = "begun"
    BY <2>8, <2>11, <2>12
  <2>14. \A i, j \in DOMAIN env'.open :
           env'.open[i].name = env'.open[j].name /\ env'.open[i].index = env'.open[j].index => i = j
    BY <1>1, <2>5, <2>8, <2>11 DEF Marked
  <2> QED BY <2>9, <2>10, <2>13, <2>14 DEF Marked
<1> QED BY <1>2, <1>3

\* finalize: what it takes is defined, and begun once it is finished.
LEMMA FinalizeMarks ==
  ASSUME PlanInv, finalize
  PROVE  Marked(memory', env'.open)
<1>1. /\ PlanOK(memory) /\ OpenOK(memory, env.open) /\ Marked(memory, env.open)
      /\ DOMAIN memory.callables \subseteq Declared
  BY DEF PlanInv, PlanShape, PlanOK, Declared
<1>2. CASE Raises \/ Succeed(memory)
  BY <1>1, <1>2, MarkedAlike DEF Raises, Succeed
<1>3. CASE missing_definitions = {} /\ ~Raises /\ ~Succeed(memory)
  <2>1. /\ memory' = [memory EXCEPT !.finalized = TRUE,
                                    !.callables = [n \in Declared |-> EntryBlock(n)]]
        /\ env' = env
    BY <1>3 DEF finalize, Succeed
  <2>2. memory'.exports = memory.exports /\ memory'.callables = [n \in Declared |-> EntryBlock(n)]
    BY <1>1, <2>1 DEF PlanOK
  <2>3. ASSUME NEW n \in Declared
        PROVE  /\ memory.exports[n].definition_index # NoDefinition
               /\ EntryBlock(n).body = "finished" \/ 2 \in DOMAIN memory.exports[n].blocks
    <3>1. memory.exports[n].definition_index # NoDefinition
      BY <1>3 DEF missing_definitions
    <3>2. memory.exports[n].blocks # <<>>
      BY <1>1, <3>1 DEF PlanOK, Declared
    <3>3. EntryBlock(n) = memory.exports[n].blocks[1]
      BY <3>2 DEF EntryBlock
    <3> QED BY <1>1, <3>1, <3>3 DEF Marked, Declared
  <2>4. \A n \in DOMAIN memory'.callables :
          /\ memory'.exports[n].definition_index # NoDefinition
          /\ memory'.callables[n].body = "finished" \/ 2 \in DOMAIN memory'.exports[n].blocks
    BY <2>2, <2>3
  <2> QED BY <1>1, <2>1, <2>2, <2>4 DEF Marked
<1> QED BY <1>2, <1>3 DEF finalize

\* declare: the new export has no definition.
LEMMA DeclareMarks ==
  ASSUME PlanInv, NEW name, NEW signature, declare(name, signature)
  PROVE  Marked(memory', env'.open)
<1>1. /\ PlanOK(memory) /\ OpenOK(memory, env.open) /\ Marked(memory, env.open)
      /\ DOMAIN memory.callables \subseteq Declared
  BY DEF PlanInv, PlanShape, PlanOK, Declared
<1>2. CASE Raises
  BY <1>1, <1>2, MarkedAlike DEF Raises
<1>3. CASE name \notin Declared /\ ~Raises
  <2> DEFINE new == [signature |-> signature, definition_index |-> NoDefinition, blocks |-> <<>>]
  <2>1. /\ memory' = [memory EXCEPT !.exports = [n \in Declared \cup {name} |->
                        IF n = name THEN new ELSE memory.exports[n]]]
        /\ env' = env
    BY <1>3 DEF declare, Succeed
  <2>2. new.definition_index = NoDefinition
    OBVIOUS
  <2> HIDE DEF new
  <2>3. /\ memory'.exports = [n \in Declared \cup {name} |-> IF n = name THEN new ELSE memory.exports[n]]
        /\ memory'.callables = memory.callables
    BY <1>1, <2>1 DEF PlanOK
  <2>4. /\ Declared' = Declared \cup {name} /\ memory'.exports[name] = new
        /\ \A n \in Declared : memory'.exports[n] = memory.exports[n]
    BY <1>3, <2>3 DEF Declared
  <2> QED BY <1>1, <2>1, <2>2, <2>3, <2>4, MarkedAlike
<1> QED BY <1>2, <1>3 DEF declare

\* Every call on the plan keeps PlanInv.
LEMMA PlanKeeps == PlanInv /\ [PlanNext]_vars => PlanInv'
<1> SUFFICES ASSUME PlanInv, [PlanNext]_vars PROVE Marked(memory', env'.open)
  BY ShapeKeeps DEF PlanInv
<1>1. /\ PlanShape /\ OpenOK(memory, env.open) /\ Marked(memory, env.open)
      /\ DOMAIN memory.callables \subseteq Declared
  BY DEF PlanInv, PlanShape, PlanOK, Declared
<1>2. ASSUME UNCHANGED memory, UNCHANGED env PROVE Marked(memory', env'.open)
  BY <1>1, <1>2
<1>3. InBody => BodyBlock \in BodyBlocks /\ BodyBlock.body = "begun"
  <2> SUFFICES ASSUME InBody PROVE BodyBlock \in BodyBlocks /\ BodyBlock.body = "begun"
    OBVIOUS
  <2> QED BY <1>1, OpenBlock, OpenBegun DEF BodyBlock
<1>4. CASE emit_ret
  <2> DEFINE blk == [BodyBlock EXCEPT !.ends = "ret"]
  <2>1. InBody /\ Succeed(Emit(blk))
    BY <1>4 DEF emit_ret
  <2>2. blk.body = "begun"
    BY <1>3, <2>1 DEF BodyBlocks
  <2> HIDE DEF blk
  <2> QED BY <2>1, <2>2, EmitMarks
<1>5. ASSUME NEW name, NEW signature, reopen(name, signature) PROVE Marked(memory', env'.open)
  <2>1. CASE Raises \/ Succeed(memory)
    BY <1>2, <2>1 DEF Raises, Succeed
  <2> DEFINE blk == [BodyBlock EXCEPT !.calls = @ \cup {[name |-> name, signature |-> signature]}]
  <2>2. CASE InBody /\ Succeed(Emit(blk))
    <3>1. blk.body = "begun"
      BY <1>3, <2>2 DEF BodyBlocks
    <3> HIDE DEF blk
    <3> QED BY <2>2, <3>1, EmitMarks
  <2> QED BY <1>5, <2>1, <2>2 DEF reopen
<1>6. ASSUME NEW name, call_i64(name) PROVE Marked(memory', env'.open)
  BY <1>2, <1>6 DEF call_i64, Raises, Succeed
<1>7. CASE UNCHANGED vars
  BY <1>2, <1>7 DEF vars
<1> QED BY <1>4, <1>5, <1>6, <1>7, EndMarks, BeginMarks, FinalizeMarks, DeclareMarks DEF PlanNext

\* A plan begins with nothing declared and nothing begun.
LEMMA PlanInitial == PlanInit => PlanInv
<1> SUFFICES ASSUME PlanInit PROVE PlanInv
  OBVIOUS
<1>1. memory.exports = <<>> /\ memory.callables = <<>> /\ env.open = <<>>
  BY DEF PlanInit
<1>2. Marked(memory, env.open)
  BY <1>1 DEF Marked
<1> QED BY <1>2, ShapeInitial DEF PlanInv

\* What the invariant says of the callables.
LEMMA PlanCallables == PlanInv => CallablesAreWhole
<1> SUFFICES ASSUME PlanInv PROVE CallablesAreWhole
  OBVIOUS
<1>1. PlanOK(memory) /\ Marked(memory, env.open)
  BY DEF PlanInv, PlanShape
<1>2. ASSUME NEW n \in DOMAIN memory.callables, 2 \in DOMAIN memory.exports[n].blocks
      PROVE  Len(memory.exports[n].blocks) > 1
  <2>1. memory.exports[n] \in Export
    BY <1>1 DEF PlanOK
  <2>2. memory.exports[n].blocks \in Seq(BodyBlocks)
    BY <2>1 DEF Export
  <2> QED BY <1>2, <2>2
<1> QED BY <1>1, <1>2 DEF PlanOK, Marked, CallablesAreWhole

\* For any number of exports and bodies, in any order of declaring, defining, abandoning and
\* finalizing: a callable returns, ran to its end unless it was begun more than once, and calls
\* only callables of the signatures it expects.
THEOREM CallablesWhole == PlanSpec => []CallablesAreWhole
BY PlanInitial, PlanKeeps, PlanCallables, PTL DEF PlanSpec

(***************************************************************************)
(* The plan's count: a definition's number is below the number of bodies   *)
(* begun, for each was begun, and no more are begun than there is room.    *)
(***************************************************************************)
PlanCount ==
  /\ IsFiniteSet(Bodies) /\ Cardinality(Bodies) <= MaxBodies
  /\ memory.definition_counter + Len(env.open) <= Cardinality(Bodies)
  /\ \A n \in Declared : memory.exports[n].definition_index \in {NoDefinition} \cup 0 .. MaxBodies

\* Where the exports have as many blocks as before, the bodies are the same.
LEMMA SameBodies ==
  ASSUME Declared \subseteq Declared',
         \A n \in Declared : DOMAIN memory'.exports[n].blocks = DOMAIN memory.exports[n].blocks,
         \A n \in Declared' \ Declared : DOMAIN memory'.exports[n].blocks = {}
  PROVE  Bodies' = Bodies
<1>1. ASSUME NEW n, NEW i
      PROVE  <<n, i>> \in Bodies' <=> <<n, i>> \in Bodies
  BY DEF Bodies
<1>2. Bodies' \subseteq {<<p[1], p[2]>> : p \in Bodies'} /\ Bodies \subseteq {<<p[1], p[2]>> : p \in Bodies}
  BY DEF Bodies
<1> QED BY <1>1, <1>2

\* An interval one longer has one more member, its end.
LEMMA IntervalMore ==
  ASSUME NEW n \in Nat
  PROVE  \A i : i \in 1 .. n + 1 <=> i \in 1 .. n \/ i = n + 1
OBVIOUS

\* An interval has as many members as its end says.
LEMMA IntervalSize ==
  ASSUME NEW n \in Nat
  PROVE  Cardinality(1 .. n) = n
BY FS_Interval

\* A body more, where there was room for one.
LEMMA OneMoreBody ==
  ASSUME PlanShape, PlanCount, Cardinality(Bodies) < MaxBodies, NEW name \in Declared,
         Declared' = Declared,
         \A n \in Declared : n # name =>
           DOMAIN memory'.exports[n].blocks = DOMAIN memory.exports[n].blocks,
         DOMAIN memory'.exports[name].blocks = 1 .. Len(memory.exports[name].blocks) + 1
  PROVE  IsFiniteSet(Bodies') /\ Cardinality(Bodies') = Cardinality(Bodies) + 1
<1> DEFINE length == Len(memory.exports[name].blocks)
           new == <<name, length + 1>>
<1>1. /\ length \in Nat /\ DOMAIN memory.exports[name].blocks = 1 .. length
      /\ IsFiniteSet(Bodies) /\ Cardinality(Bodies) \in Nat /\ MaxBodies \in Nat
  BY FS_CardinalityType, MaxBodiesAssumption DEF PlanShape, PlanOK, PlanCount, Export, Declared
<1>2. length < MaxBodies
  <2> SUFFICES ASSUME length >= MaxBodies PROVE FALSE
    BY <1>1
  <2> DEFINE f == [i \in 1 .. MaxBodies |-> <<name, i>>]
  <2>1. f \in Injection(1 .. MaxBodies, Bodies)
    <3>1. \A i \in 1 .. MaxBodies : f[i] \in Bodies
      BY <1>1 DEF Bodies
    <3>2. \A i, j \in 1 .. MaxBodies : f[i] = f[j] => i = j
      OBVIOUS
    <3>3. f \in [1 .. MaxBodies -> Bodies]
      BY <3>1
    <3> HIDE DEF f
    <3> QED BY <3>2, <3>3 DEF Injection, IsInjective
  <2>2. Cardinality(1 .. MaxBodies) <= Cardinality(Bodies)
    BY <1>1, <2>1, FS_Injection
  <2>3. Cardinality(1 .. MaxBodies) = MaxBodies
    <3>1. MaxBodies \in Nat
      BY MaxBodiesAssumption
    <3> QED BY <3>1, IntervalSize, Zenon
  <2> QED BY <1>1, <2>2, <2>3
<1>3. Bodies' = Bodies \cup {new}
  <2>1. ASSUME NEW n, NEW i
        PROVE  <<n, i>> \in Bodies' <=> <<n, i>> \in Bodies \/ (n = name /\ i = length + 1)
    <3>1. <<n, i>> \in Bodies' <=> n \in Declared /\ i \in 1 .. MaxBodies /\ i \in DOMAIN memory'.exports[n].blocks
      BY DEF Bodies
    <3>2. <<n, i>> \in Bodies <=> n \in Declared /\ i \in 1 .. MaxBodies /\ i \in DOMAIN memory.exports[n].blocks
      BY DEF Bodies
    <3>3. CASE n = name
      <4>1. i \in 1 .. length + 1 <=> i \in 1 .. length \/ i = length + 1
        BY <1>1, IntervalMore, Zenon
      <4>2. i = length + 1 => i \in 1 .. MaxBodies
        BY <1>1, <1>2
      <4> HIDE DEF length
      <4> QED BY <1>1, <3>1, <3>2, <3>3, <4>1, <4>2 DEF length
    <3>4. CASE n # name
      BY <3>1, <3>2, <3>4
    <3> QED BY <3>3, <3>4
  <2>2. Bodies' \subseteq {<<p[1], p[2]>> : p \in Bodies'} /\ Bodies \subseteq {<<p[1], p[2]>> : p \in Bodies}
    BY DEF Bodies
  <2> QED BY <2>1, <2>2
<1>4. new \notin Bodies
  BY <1>1 DEF Bodies
<1> QED BY <1>1, <1>3, <1>4, FS_AddElement

\* A sequence of domain 1 .. n has length n.
LEMMA LenDomain ==
  ASSUME NEW S, NEW s \in Seq(S), NEW n \in Nat, DOMAIN s = 1 .. n
  PROVE  Len(s) = n
OBVIOUS

\* Without its last element a sequence is one shorter.
LEMMA FrontLength ==
  ASSUME NEW S, NEW s \in Seq(S), s # <<>>
  PROVE  Len(s) \in Nat /\ Len(s) >= 1 /\ Len(SubSeq(s, 1, Len(s) - 1)) = Len(s) - 1
<1>1. Len(s) \in Nat /\ Len(s) >= 1
  OBVIOUS
<1>2. DOMAIN SubSeq(s, 1, Len(s) - 1) = 1 .. Len(s) - 1 /\ SubSeq(s, 1, Len(s) - 1) \in Seq(S)
  BY <1>1
<1>3. Len(s) - 1 \in Nat
  BY <1>1
<1>4. Len(SubSeq(s, 1, Len(s) - 1)) = Len(s) - 1
  BY <1>2, <1>3, LenDomain, Zenon
<1> QED BY <1>1, <1>4

\* Every call on the plan keeps the count.
LEMMA PlanCountStep ==
  ASSUME PlanShape, PlanShape', PlanCount, [PlanNext]_vars
  PROVE  PlanCount'
<1> DEFINE c == memory.definition_counter
<1>1. /\ memory = [exports |-> memory.exports, definition_counter |-> c,
                   finalized |-> memory.finalized, callables |-> memory.callables]
      /\ c \in Nat /\ env = [open |-> env.open] /\ env.open \in Seq(OpenBody) /\ MaxBodies \in Nat
      /\ memory.exports \in [Declared -> Export]
      /\ IsFiniteSet(Bodies) /\ Cardinality(Bodies) \in Nat
  BY FS_CardinalityType, MaxBodiesAssumption DEF PlanShape, PlanOK, OpenOK, PlanCount, Declared
<1>2. ASSUME UNCHANGED memory, UNCHANGED env PROVE PlanCount'
  BY <1>2 DEF PlanCount, Bodies, Declared
<1>3. ASSUME NEW name \in ExportNames, NEW signature, declare(name, signature) PROVE PlanCount'
  <2>1. CASE Raises
    BY <1>2, <2>1 DEF Raises
  <2>2. CASE name \notin Declared /\ ~Raises
    <3> DEFINE new == [signature |-> signature, definition_index |-> NoDefinition, blocks |-> <<>>]
    <3>1. /\ memory'.exports = [n \in Declared \cup {name} |-> IF n = name THEN new ELSE memory.exports[n]]
          /\ memory'.definition_counter = c /\ env' = env
      BY <1>1, <1>3, <2>2 DEF declare, Succeed
    <3>2. DOMAIN new.blocks = {} /\ new.definition_index = NoDefinition
      OBVIOUS
    <3> HIDE DEF new
    <3>3. /\ Declared' = Declared \cup {name} /\ memory'.exports[name] = new
          /\ \A n \in Declared : memory'.exports[n] = memory.exports[n]
      BY <2>2, <3>1 DEF Declared
    <3>4. Bodies' = Bodies
      BY <3>2, <3>3, SameBodies
    <3>5. \A n \in Declared' : memory'.exports[n].definition_index \in {NoDefinition} \cup 0 .. MaxBodies
      BY <3>2, <3>3 DEF PlanCount
    <3> QED BY <3>1, <3>4, <3>5 DEF PlanCount
  <2> QED BY <1>3, <2>1, <2>2 DEF declare
<1>4. ASSUME InBody, NEW blk
      PROVE  LET p == Emit(blk) IN
             /\ p.definition_counter = c
             /\ p = [exports |-> p.exports, definition_counter |-> c,
                     finalized |-> memory.finalized, callables |-> memory.callables]
             /\ DOMAIN p.exports = Declared
             /\ \A n \in Declared :
                  /\ DOMAIN p.exports[n].blocks = DOMAIN memory.exports[n].blocks
                  /\ p.exports[n].definition_index = memory.exports[n].definition_index
                  /\ p.exports[n] = [signature |-> p.exports[n].signature,
                                     definition_index |-> p.exports[n].definition_index,
                                     blocks |-> p.exports[n].blocks]
  <2> DEFINE p == Emit(blk)
             old == memory.exports[Body.name]
             e == [old EXCEPT !.blocks = [old.blocks EXCEPT ![Body.index] = blk]]
  <2>1. p = [memory EXCEPT !.exports = [memory.exports EXCEPT ![Body.name] = e]]
    BY DEF Emit
  <2>2. /\ Body.name \in Declared /\ old \in Export
    BY <1>4, OpenBlock
  <2>3. /\ e = [signature |-> old.signature, definition_index |-> old.definition_index, blocks |-> e.blocks]
        /\ DOMAIN e.blocks = DOMAIN old.blocks
    <3> HIDE DEF old
    <3> QED BY <2>2 DEF Export
  <2> HIDE DEF e
  <2>4. p.exports = [memory.exports EXCEPT ![Body.name] = e]
    BY <1>1, <2>1
  <2>5. /\ DOMAIN p.exports = Declared
        /\ \A n \in Declared : p.exports[n] = IF n = Body.name THEN e ELSE memory.exports[n]
    BY <2>4 DEF Declared
  <2>6. \A n \in Declared : memory.exports[n] = [signature |-> memory.exports[n].signature,
           definition_index |-> memory.exports[n].definition_index, blocks |-> memory.exports[n].blocks]
    BY <1>1 DEF Export
  <2>7. /\ p.definition_counter = c
        /\ p = [exports |-> p.exports, definition_counter |-> c,
                finalized |-> memory.finalized, callables |-> memory.callables]
    BY <1>1, <2>1
  <2> HIDE DEF p
  <2>8. ASSUME NEW n \in Declared
        PROVE  /\ DOMAIN p.exports[n].blocks = DOMAIN memory.exports[n].blocks
               /\ p.exports[n].definition_index = memory.exports[n].definition_index
               /\ p.exports[n] = [signature |-> p.exports[n].signature,
                                  definition_index |-> p.exports[n].definition_index,
                                  blocks |-> p.exports[n].blocks]
    <3>1. CASE n = Body.name
      BY <2>3, <2>5, <3>1
    <3>2. CASE n # Body.name
      BY <2>5, <2>6, <3>2
    <3> QED BY <3>1, <3>2
  <2> QED BY <2>5, <2>7, <2>8 DEF p
<1>5. ASSUME InBody, NEW blk, memory' = Emit(blk)
      PROVE  /\ Bodies' = Bodies /\ memory'.definition_counter = c
             /\ \A n \in Declared' : memory'.exports[n].definition_index \in {NoDefinition} \cup 0 .. MaxBodies
  <2>1. Declared' = Declared /\ memory'.definition_counter = c
    BY <1>4, <1>5 DEF Declared
  <2>2. \A n \in Declared : /\ DOMAIN memory'.exports[n].blocks = DOMAIN memory.exports[n].blocks
                           /\ memory'.exports[n].definition_index = memory.exports[n].definition_index
    BY <1>4, <1>5
  <2> QED BY <2>1, <2>2, SameBodies DEF PlanCount
<1>6. ASSUME NEW blk, InBody, Succeed(Emit(blk)) PROVE PlanCount'
  BY <1>5, <1>6 DEF Succeed, PlanCount
<1>7. CASE emit_ret
  BY <1>6, <1>7 DEF emit_ret
<1>8. ASSUME NEW name, NEW signature, reopen(name, signature) PROVE PlanCount'
  <2>1. CASE Raises \/ Succeed(memory)
    BY <1>2, <2>1 DEF Raises, Succeed
  <2> QED BY <1>6, <1>8, <2>1 DEF reopen
<1>9. InBody => /\ Len(env.open) \in Nat /\ Len(env.open) >= 1
                /\ Len(SubSeq(env.open, 1, Len(env.open) - 1)) = Len(env.open) - 1
  BY <1>1, FrontLength DEF InBody
<1>10. CASE define_raises
  <2>1. InBody /\ memory' = Emit([BodyBlock EXCEPT !.body = "abandoned"])
        /\ env'.open = SubSeq(env.open, 1, Len(env.open) - 1)
    BY <1>10 DEF define_raises, LeaveBlock, Leave
  <2>2. /\ Bodies' = Bodies /\ memory'.definition_counter = c
        /\ \A n \in Declared' : memory'.exports[n].definition_index \in {NoDefinition} \cup 0 .. MaxBodies
    BY <1>5, <2>1
  <2>3. c + (Len(env.open) - 1) <= Cardinality(Bodies) /\ Len(env'.open) = Len(env.open) - 1
    BY <1>1, <1>9, <2>1 DEF PlanCount
  <2> QED BY <2>2, <2>3 DEF PlanCount
<1>11. CASE define_end
  <2> DEFINE p == Emit([BodyBlock EXCEPT !.body = "finished"])
             name == Body.name
  <2>1. /\ InBody /\ memory' = Mark(p, name)
        /\ env'.open = SubSeq(env.open, 1, Len(env.open) - 1)
    BY <1>11 DEF define_end, LeaveBlock, Leave
  <2>2. /\ p = [exports |-> p.exports, definition_counter |-> c,
                finalized |-> memory.finalized, callables |-> memory.callables]
        /\ DOMAIN p.exports = Declared
        /\ \A n \in Declared :
             /\ DOMAIN p.exports[n].blocks = DOMAIN memory.exports[n].blocks
             /\ p.exports[n].definition_index = memory.exports[n].definition_index
             /\ p.exports[n] = [signature |-> p.exports[n].signature,
                                definition_index |-> p.exports[n].definition_index,
                                blocks |-> p.exports[n].blocks]
    BY <1>4, <2>1
  <2>3. name \in Declared
    BY <2>1, OpenBlock
  <2> HIDE DEF p, name
  <2>4. memory' = [p EXCEPT !.exports = [p.exports EXCEPT ![name] =
                                          [p.exports[name] EXCEPT !.definition_index = c]],
                            !.definition_counter = c + 1]
    <3>1. p.definition_counter = c
      BY <2>2
    <3> DEFINE e == [p.exports[name] EXCEPT !.definition_index = p.definition_counter]
    <3>2. memory' = [p EXCEPT !.exports = [p.exports EXCEPT ![name] = e],
                              !.definition_counter = p.definition_counter + 1]
      BY <2>1 DEF Mark
    <3> QED BY <3>1, <3>2
  <2>5. /\ memory'.definition_counter = c + 1
        /\ memory'.exports = [p.exports EXCEPT ![name] = [p.exports[name] EXCEPT !.definition_index = c]]
    BY <2>2, <2>4
  <2>6. Declared' = Declared
    BY <2>2, <2>5 DEF Declared
  <2>7. \A n \in Declared : memory'.exports[n] =
          IF n = name THEN [p.exports[name] EXCEPT !.definition_index = c] ELSE p.exports[n]
    BY <2>2, <2>5
  <2>8. \A n \in Declared : DOMAIN memory'.exports[n].blocks = DOMAIN memory.exports[n].blocks
    BY <2>2, <2>3, <2>7
  <2>9. Bodies' = Bodies
    BY <2>6, <2>8, SameBodies
  <2>10. c + Len(env.open) <= Cardinality(Bodies) /\ Cardinality(Bodies) <= MaxBodies
    BY DEF PlanCount
  <2>11. Len(env'.open) = Len(env.open) - 1 /\ Len(env.open) \in Nat /\ Len(env.open) >= 1
    BY <1>9, <2>1
  <2>12. c \in 0 .. MaxBodies /\ c + 1 + (Len(env.open) - 1) <= Cardinality(Bodies)
    BY <1>1, <2>10, <2>11
  <2>13. \A n \in Declared' : memory'.exports[n].definition_index \in {NoDefinition} \cup 0 .. MaxBodies
    <3> SUFFICES ASSUME NEW n \in Declared
                 PROVE  memory'.exports[n].definition_index \in {NoDefinition} \cup 0 .. MaxBodies
      BY <2>6
    <3>1. CASE n = name
      BY <2>2, <2>7, <2>12, <3>1
    <3>2. CASE n # name
      BY <2>2, <2>7, <3>2 DEF PlanCount
    <3> QED BY <3>1, <3>2
  <2> QED BY <2>5, <2>9, <2>10, <2>11, <2>12, <2>13 DEF PlanCount
<1>12. ASSUME NEW name, define_begin(name) PROVE PlanCount'
  <2>1. CASE Raises
    BY <1>2, <2>1 DEF Raises
  <2>2. CASE name \in Declared /\ ~Raises
    <3> DEFINE old == memory.exports[name]
               blk == [calls |-> {}, ends |-> "open", body |-> "begun"]
               e == [old EXCEPT !.blocks = Append(old.blocks, blk)]
    <3>1. /\ Cardinality(Bodies) < MaxBodies
          /\ memory' = [memory EXCEPT !.exports = [memory.exports EXCEPT ![name] = e]]
          /\ env'.open = Append(env.open, [name |-> name, index |-> Len(old.blocks) + 1])
      BY <1>12, <2>2 DEF define_begin
    <3>2. old \in Export
      BY <1>1, <2>2
    <3>3. /\ e.definition_index = old.definition_index
          /\ DOMAIN e.blocks = 1 .. Len(old.blocks) + 1
      <4> HIDE DEF old
      <4> QED BY <3>2 DEF Export
    <3> HIDE DEF e
    <3>4. memory'.exports = [memory.exports EXCEPT ![name] = e] /\ memory'.definition_counter = c
      BY <1>1, <3>1
    <3>5. /\ Declared' = Declared
          /\ \A n \in Declared : memory'.exports[n] = IF n = name THEN e ELSE memory.exports[n]
      BY <3>4 DEF Declared
    <3>6. IsFiniteSet(Bodies') /\ Cardinality(Bodies') = Cardinality(Bodies) + 1
      BY <2>2, <3>1, <3>3, <3>5, OneMoreBody
    <3>7. Len(env'.open) = Len(env.open) + 1 /\ Len(env.open) \in Nat
      BY <1>1, <3>1
    <3>8. \A n \in Declared' : memory'.exports[n].definition_index \in {NoDefinition} \cup 0 .. MaxBodies
      BY <2>2, <3>3, <3>5 DEF PlanCount
    <3>9. c + Len(env.open) <= Cardinality(Bodies)
      BY DEF PlanCount
    <3> QED BY <1>1, <3>1, <3>4, <3>6, <3>7, <3>8, <3>9 DEF PlanCount
  <2> QED BY <1>12, <2>1, <2>2 DEF define_begin
<1>13. CASE finalize
  <2>1. CASE Raises \/ Succeed(memory)
    BY <1>2, <2>1 DEF Raises, Succeed
  <2>2. CASE ~(Raises \/ Succeed(memory))
    <3>1. memory'.exports = memory.exports /\ memory'.definition_counter = c /\ env' = env
      BY <1>1, <1>13, <2>2 DEF finalize, Succeed
    <3> QED BY <3>1 DEF PlanCount, Bodies, Declared
  <2> QED BY <2>1, <2>2
<1>14. ASSUME NEW name, call_i64(name) PROVE PlanCount'
  BY <1>2, <1>14 DEF call_i64, Raises, Succeed
<1>15. CASE UNCHANGED vars
  BY <1>2, <1>15 DEF vars
<1> QED BY <1>3, <1>7, <1>8, <1>10, <1>11, <1>12, <1>13, <1>14, <1>15 DEF PlanNext

\* A plan nobody has begun counts nothing.
LEMMA PlanCountInitial == PlanInit => PlanCount
<1> SUFFICES ASSUME PlanInit PROVE PlanCount
  OBVIOUS
<1>1. /\ memory.exports = <<>> /\ memory.definition_counter = 0 /\ env.open = <<>>
  BY DEF PlanInit
<1>2. Declared = {}
  BY <1>1 DEF Declared
<1>3. Bodies = {}
  BY <1>2 DEF Bodies
<1>4. Bodies \subseteq {}
  BY <1>3
<1>5. IsFiniteSet(Bodies) /\ Cardinality(Bodies) = 0
  BY <1>3, FS_EmptySet
<1>6. Len(env.open) = 0
  BY <1>1
<1> QED BY <1>1, <1>2, <1>5, <1>6, MaxBodiesAssumption DEF PlanCount

\* What is declared, defined and open has its type.
LEMMA PlanTypes == PlanShape /\ PlanCount => PlanTypeOK
BY DEF PlanShape, PlanCount, PlanOK, OpenOK, PlanTypeOK, Declared

(***************************************************************************)
(* Struct layouts.  Alignments are 1, 2, 4 or 8, so of two the smaller     *)
(* divides the larger, and what the largest divides they all divide.       *)
(***************************************************************************)
\* The alignment the reification declares: one it knows.
AlignmentOf(c, k) == Alignment(c.fields[k], c.packed)
LargestAlignment(c) == Max({AlignmentOf(c, k) : k \in DOMAIN c.fields})

\* Rounding up reaches the first multiple.
LEMMA RoundsUp ==
  ASSUME NEW n \in Nat, NEW a \in Alignments
  PROVE  /\ RoundUp(n, a) \in Nat /\ RoundUp(n, a) % a = 0
         /\ n <= RoundUp(n, a) /\ RoundUp(n, a) < n + a
         /\ n % a = 0 => RoundUp(n, a) = n
<1>1. CASE a = 1
  BY <1>1 DEF RoundUp
<1>2. CASE a = 2
  BY <1>2 DEF RoundUp
<1>3. CASE a = 4
  BY <1>3 DEF RoundUp
<1>4. CASE a = 8
  BY <1>4 DEF RoundUp
<1> QED BY <1>1, <1>2, <1>3, <1>4 DEF Alignments

\* In bits the same: a multiple of the unit, and whole bytes.
LEMMA RoundsUpBits ==
  ASSUME NEW n \in Nat, NEW a \in Alignments
  PROVE  \E q \in Nat : /\ RoundUp(n, 8 * a) = 8 * q /\ q % a = 0
                        /\ n <= 8 * q /\ (8 * q) \div 8 = q /\ ((8 * q) \div (8 * a)) * a = q
<1>1. CASE a = 1
  <2> DEFINE q == (n + 7) \div 8
  <2>1. RoundUp(n, 8 * a) = 8 * q /\ q \in Nat /\ q % a = 0 /\ n <= 8 * q
    BY <1>1 DEF RoundUp
  <2> HIDE DEF q
  <2> QED BY <1>1, <2>1
<1>2. CASE a = 2
  <2> DEFINE q == ((n + 15) \div 16) * 2
  <2>1. RoundUp(n, 8 * a) = 8 * q /\ q \in Nat /\ q % a = 0 /\ n <= 8 * q
    BY <1>2 DEF RoundUp
  <2> HIDE DEF q
  <2> QED BY <1>2, <2>1
<1>3. CASE a = 4
  <2> DEFINE q == ((n + 31) \div 32) * 4
  <2>1. RoundUp(n, 8 * a) = 8 * q /\ q \in Nat /\ q % a = 0 /\ n <= 8 * q
    BY <1>3 DEF RoundUp
  <2> HIDE DEF q
  <2> QED BY <1>3, <2>1
<1>4. CASE a = 8
  <2> DEFINE q == ((n + 63) \div 64) * 8
  <2>1. RoundUp(n, 8 * a) = 8 * q /\ q \in Nat /\ q % a = 0 /\ n <= 8 * q
    BY <1>4 DEF RoundUp
  <2> HIDE DEF q
  <2> QED BY <1>4, <2>1
<1> QED BY <1>1, <1>2, <1>3, <1>4 DEF Alignments

\* The unit that holds a bit begins at or before it.
LEMMA UnitOfBit ==
  ASSUME NEW n \in Nat, NEW a \in Alignments
  PROVE  \E q \in Nat : (n \div (8 * a)) * a = q /\ q % a = 0 /\ 8 * q <= n
<1> DEFINE q == (n \div (8 * a)) * a
<1>1. CASE a = 1
  BY <1>1
<1>2. CASE a = 2
  BY <1>2
<1>3. CASE a = 4
  BY <1>3
<1>4. CASE a = 8
  BY <1>4
<1> QED BY <1>1, <1>2, <1>3, <1>4 DEF Alignments

\* Of two alignments the smaller divides what the larger does, and a multiple beyond another is
\* beyond it by the whole alignment.
LEMMA AlignmentsDivide ==
  ASSUME NEW a \in Alignments, NEW b \in Alignments, a <= b, NEW n \in Nat, n % b = 0
  PROVE  n % a = 0
<1>1. CASE a = 1
  BY <1>1
<1>2. CASE a = 2
  BY <1>2 DEF Alignments
<1>3. CASE a = 4
  BY <1>3 DEF Alignments
<1>4. CASE a = 8
  BY <1>4 DEF Alignments
<1> QED BY <1>1, <1>2, <1>3, <1>4 DEF Alignments

\* The multiple after m is the next one.
LEMMA NextMultiple ==
  ASSUME NEW a \in Alignments, NEW m \in Nat, m % a = 0, NEW n \in Nat, n % a = 0, m < n
  PROVE  m + a <= n
<1>1. CASE a = 1
  BY <1>1
<1>2. CASE a = 2
  BY <1>2
<1>3. CASE a = 4
  BY <1>3
<1>4. CASE a = 8
  BY <1>4
<1> QED BY <1>1, <1>2, <1>3, <1>4 DEF Alignments

(***************************************************************************)
(* Where ctypes puts the fields                                            *)
(***************************************************************************)
\* What is known of a field's place when the next free bit was next_bit.
PlacedWell(p, next_bit, field, packed) ==
  /\ p = [offset |-> p.offset, size |-> field.size, align |-> field.align, bits |-> field.bits,
          bit_offset |-> p.bit_offset, next_bit |-> p.next_bit]
  /\ p.offset \in Nat /\ p.offset % Alignment(field, packed) = 0
  /\ p.next_bit \in Nat /\ next_bit <= p.next_bit
  /\ IF field.bits = 0 THEN 8 * (p.offset + field.size) = p.next_bit ELSE 8 * p.offset < p.next_bit

FieldOK(f, packed) ==
  /\ f.size \in Nat \ {0} /\ f.align \in Alignments /\ f.bits \in Nat
  /\ f.bits # 0 => f.size = f.align
  /\ packed => f.bits = 0

\* A field goes to whole bytes, at a multiple of its alignment, after the bits already taken.
LEMMA PlaceField ==
  ASSUME NEW b \in Nat, NEW f, NEW packed \in BOOLEAN, FieldOK(f, packed)
  PROVE  PlacedWell(Place(b, f, packed), b, f, packed)
<1> DEFINE a == Alignment(f, packed)
           p == Place(b, f, packed)
<1>0. /\ f.size \in Nat \ {0} /\ f.align \in Alignments /\ f.bits \in Nat
      /\ f.bits # 0 => f.size = f.align /\ a = f.align
  BY DEF FieldOK, Alignment
<1>1. a \in Alignments
  BY <1>0 DEF Alignment, Alignments
<1> HIDE DEF a
<1>2. CASE f.bits = 0
  <2>1. PICK q \in Nat : RoundUp(b, 8 * a) = 8 * q /\ q % a = 0 /\ b <= 8 * q /\ (8 * q) \div 8 = q
    BY <1>1, RoundsUpBits
  <2>2. p = [offset |-> q, size |-> f.size, align |-> f.align, bits |-> f.bits,
             bit_offset |-> 8 * q - 8 * q, next_bit |-> 8 * q + 8 * f.size]
    BY <1>2, <2>1 DEF Place, a
  <2>3. /\ p.offset = q /\ p.next_bit = 8 * q + 8 * f.size
        /\ p = [offset |-> p.offset, size |-> f.size, align |-> f.align, bits |-> f.bits,
                bit_offset |-> p.bit_offset, next_bit |-> p.next_bit]
    BY <2>2
  <2> HIDE DEF p
  <2>4. p.next_bit \in Nat /\ b <= p.next_bit /\ 8 * (p.offset + f.size) = p.next_bit
    BY <1>0, <2>1, <2>3
  <2>5. PlacedWell(p, b, f, packed)
    BY <1>2, <2>1, <2>3, <2>4, Zenon DEF PlacedWell, a
  <2> QED BY <2>5 DEF p
<1>3. CASE f.bits # 0
  <2> DEFINE unit == 8 * f.size
             fits == b \div unit = (b + f.bits - 1) \div unit
             start == IF fits THEN b ELSE RoundUp(b, unit)
             q == (start \div unit) * f.size
  <2>1. f.size = a /\ unit = 8 * a
    BY <1>0, <1>3
  <2>2. start \in Nat /\ b <= start /\ q \in Nat /\ q % a = 0 /\ 8 * q <= start
    <3>1. CASE fits
      <4>1. start = b
        BY <3>1
      <4> HIDE DEF start, fits
      <4> QED BY <1>1, <2>1, <4>1, UnitOfBit
    <3>2. CASE ~fits
      <4>1. start = RoundUp(b, unit)
        BY <3>2
      <4>2. PICK r \in Nat : RoundUp(b, 8 * a) = 8 * r /\ r % a = 0 /\ b <= 8 * r /\ ((8 * r) \div (8 * a)) * a = r
        BY <1>1, RoundsUpBits
      <4>3. start = 8 * r
        BY <2>1, <4>1, <4>2
      <4> HIDE DEF start, fits, unit
      <4>4. q = r
        BY <2>1, <4>2, <4>3
      <4> HIDE DEF q
      <4> QED BY <4>2, <4>3, <4>4
    <3> QED BY <3>1, <3>2
  <2>3. p = [offset |-> q, size |-> f.size, align |-> f.align, bits |-> f.bits,
             bit_offset |-> start - 8 * q, next_bit |-> start + f.bits]
    BY <1>3 DEF Place
  <2>4. /\ p.offset = q /\ p.next_bit = start + f.bits
        /\ p = [offset |-> p.offset, size |-> f.size, align |-> f.align, bits |-> f.bits,
                bit_offset |-> p.bit_offset, next_bit |-> p.next_bit]
    <3> HIDE DEF p, start, q
    <3> QED BY <2>3
  <2> HIDE DEF p, start, q, unit
  <2>5. p.next_bit \in Nat /\ b <= p.next_bit /\ 8 * p.offset < p.next_bit
    BY <1>0, <1>3, <2>2, <2>4
  <2>6. PlacedWell(p, b, f, packed)
    BY <1>3, <2>2, <2>4, <2>5, Zenon DEF PlacedWell, a
  <2> QED BY <2>6 DEF p
<1> QED BY <1>2, <1>3

\* One field after another (Descriptors), with the places of the first n in g.
PlaceStep(g, c, k) == IF k = 0 THEN [next_bit |-> 0] ELSE Place(g[k - 1].next_bit, c.fields[k], c.packed)
IsPlaces(g, c, n) == g = [k \in 0 .. n |-> PlaceStep(g, c, k)]

\* The recursion defines a function.
LEMMA PlacesExist ==
  ASSUME NEW c, NEW w \in Nat
  PROVE  \E g : IsPlaces(g, c, w)
<1> DEFINE S == {n \in Nat : \E g : IsPlaces(g, c, n)}
<1>1. 0 \in S
  <2> DEFINE g == [n \in 0 .. 0 |-> [next_bit |-> 0]]
  <2>1. g = [n \in 0 .. 0 |-> PlaceStep(g, c, n)]
    BY DEF PlaceStep
  <2>2. IsPlaces(g, c, 0)
    BY <2>1 DEF IsPlaces
  <2> QED BY <2>2
<1>2. ASSUME NEW n \in Nat, n \in S PROVE n + 1 \in S
  <2>1. PICK g : IsPlaces(g, c, n)
    BY <1>2
  <2> DEFINE last == PlaceStep(g, c, n + 1)
             h == [k \in 0 .. n + 1 |-> IF k = n + 1 THEN last ELSE g[k]]
  <2>2. ASSUME NEW k \in 0 .. n + 1 PROVE h[k] = PlaceStep(h, c, k)
    <3>1. CASE k = n + 1
      <4>1. h[k] = PlaceStep(g, c, n + 1)
        BY <3>1
      <4>2. k - 1 = n /\ n \in 0 .. n + 1 /\ n # n + 1
        BY <3>1
      <4>3. h[k - 1] = g[k - 1]
        BY <4>2
      <4> HIDE DEF h, last
      <4> QED BY <3>1, <4>1, <4>3 DEF PlaceStep
    <3>2. CASE k # n + 1
      <4>1. k \in 0 .. n /\ h[k] = g[k]
        BY <3>2
      <4>2. g[k] = PlaceStep(g, c, k)
        <5>1. g = [j \in 0 .. n |-> PlaceStep(g, c, j)]
          BY <2>1 DEF IsPlaces
        <5> QED BY <4>1, <5>1
      <4>3. k # 0 => h[k - 1] = g[k - 1]
        BY <3>2
      <4> HIDE DEF h
      <4> QED BY <4>1, <4>2, <4>3 DEF PlaceStep
    <3> QED BY <3>1, <3>2
  <2>3. h = [k \in 0 .. n + 1 |-> h[k]]
    OBVIOUS
  <2> HIDE DEF h
  <2>4. h = [k \in 0 .. n + 1 |-> PlaceStep(h, c, k)]
    BY <2>2, <2>3
  <2>5. IsPlaces(h, c, n + 1)
    BY <2>4 DEF IsPlaces
  <2> QED BY <2>5
<1> HIDE DEF S
<1>3. w \in S
  BY <1>1, <1>2, NatSetInduction
<1> QED BY <1>3 DEF S

\* The free bit field k of the declaration c finds.
FreeBit(c, k) == IF k = 1 THEN 0 ELSE Descriptors(c)[k - 1].next_bit

\* A declaration the reification takes.
DeclarationOK(c) ==
  /\ c.packed \in BOOLEAN
  /\ Len(c.fields) \in Nat \ {0} /\ DOMAIN c.fields = 1 .. Len(c.fields)
  /\ \A k \in 1 .. Len(c.fields) : FieldOK(c.fields[k], c.packed)

\* Every declaration of a call is one.
LEMMA DeclarationsOK == \A c \in StructDeclarations : DeclarationOK(c) /\ c.fn \in Reifications
<1> SUFFICES ASSUME NEW c \in StructDeclarations PROVE DeclarationOK(c) /\ c.fn \in Reifications
  OBVIOUS
<1> DEFINE R == [size : Nat \ {0}, align : Alignments, bits : Nat]
<1>1. /\ c.fn \in Reifications /\ c.packed \in BOOLEAN
      /\ c.fields \in Seq(R) /\ c.fields # <<>>
      /\ \A k \in DOMAIN c.fields : IsField(c.fields[k]) /\ (c.packed => c.fields[k].bits = 0)
  BY StructDeclarationsAssumption, Zenon
<1>2. Len(c.fields) \in Nat \ {0} /\ DOMAIN c.fields = 1 .. Len(c.fields)
  <2> HIDE DEF R
  <2> QED BY <1>1, LenProperties, EmptySeq
<1>3. ASSUME NEW k \in 1 .. Len(c.fields) PROVE FieldOK(c.fields[k], c.packed)
  <2>1. c.fields[k] \in R
    <3> HIDE DEF R
    <3> QED BY <1>1, <1>2, ElementOfSeq
  <2>2. /\ c.fields[k].size \in Nat \ {0} /\ c.fields[k].align \in Alignments /\ c.fields[k].bits \in Nat
    BY <2>1
  <2> QED BY <1>1, <1>2, <2>2, Zenon DEF FieldOK, IsField
<1> QED BY <1>1, <1>2, <1>3, Zenon DEF DeclarationOK

\* Field after field, each is placed well after the one before it.
LEMMA DescriptorsAre ==
  ASSUME NEW c, DeclarationOK(c)
  PROVE  /\ DOMAIN Descriptors(c) = 1 .. Len(c.fields) /\ Len(Descriptors(c)) = Len(c.fields)
         /\ \A k \in 1 .. Len(c.fields) :
              /\ FreeBit(c, k) \in Nat
              /\ PlacedWell(Descriptors(c)[k], FreeBit(c, k), c.fields[k], c.packed)
<1> DEFINE n == Len(c.fields)
           placed == CHOOSE g : g = [k \in 0 .. n |-> IF k = 0 THEN [next_bit |-> 0]
                                     ELSE Place(g[k - 1].next_bit, c.fields[k], c.packed)]
<1>1. n \in Nat \ {0} /\ c.packed \in BOOLEAN /\ \A k \in 1 .. n : FieldOK(c.fields[k], c.packed)
  BY DEF DeclarationOK
<1>2. placed = [k \in 0 .. n |-> PlaceStep(placed, c, k)]
  <2>1. PICK g : IsPlaces(g, c, n)
    BY <1>1, PlacesExist
  <2>2. g = [k \in 0 .. n |-> IF k = 0 THEN [next_bit |-> 0]
                              ELSE Place(g[k - 1].next_bit, c.fields[k], c.packed)]
    BY <2>1 DEF IsPlaces, PlaceStep
  <2>3. placed = [k \in 0 .. n |-> IF k = 0 THEN [next_bit |-> 0]
                                   ELSE Place(placed[k - 1].next_bit, c.fields[k], c.packed)]
    BY <2>2
  <2> QED BY <2>3 DEF PlaceStep
<1>3. Descriptors(c) = [k \in 1 .. n |-> placed[k]]
  BY DEF Descriptors
<1> HIDE DEF placed
<1>4. placed[0].next_bit = 0
  BY <1>1, <1>2 DEF PlaceStep
<1>5. \A k \in 1 .. n : placed[k] = Place(placed[k - 1].next_bit, c.fields[k], c.packed)
  BY <1>1, <1>2 DEF PlaceStep
<1> DEFINE S == {k \in Nat : k <= n => placed[k].next_bit \in Nat}
<1>6. n \in S /\ \A k \in 0 .. n : placed[k].next_bit \in Nat
  <2>1. 0 \in S
    BY <1>4
  <2>2. ASSUME NEW k \in Nat, k \in S PROVE k + 1 \in S
    <3>1. SUFFICES ASSUME k + 1 <= n PROVE placed[k + 1].next_bit \in Nat
      OBVIOUS
    <3>2. k + 1 \in 1 .. n /\ (k + 1) - 1 = k /\ placed[k].next_bit \in Nat
      BY <1>1, <2>2, <3>1
    <3>3. PlacedWell(Place(placed[k].next_bit, c.fields[k + 1], c.packed), placed[k].next_bit,
                     c.fields[k + 1], c.packed)
      BY <1>1, <3>2, PlaceField
    <3>4. placed[k + 1] = Place(placed[k].next_bit, c.fields[k + 1], c.packed)
      BY <1>5, <3>2
    <3> QED BY <3>3, <3>4 DEF PlacedWell
  <2> HIDE DEF S
  <2>3. Nat \subseteq S
    BY <2>1, <2>2, NatSetInduction
  <2> QED BY <1>1, <2>3 DEF S
<1>7. ASSUME NEW k \in 1 .. n
      PROVE  FreeBit(c, k) \in Nat /\ PlacedWell(Descriptors(c)[k], FreeBit(c, k), c.fields[k], c.packed)
  <2>1. FreeBit(c, k) = placed[k - 1].next_bit
    BY <1>1, <1>3, <1>4 DEF FreeBit
  <2>2. k - 1 \in 0 .. n
    BY <1>1
  <2>3. FreeBit(c, k) \in Nat
    BY <1>6, <2>1, <2>2
  <2>4. Descriptors(c)[k] = Place(FreeBit(c, k), c.fields[k], c.packed)
    BY <1>3, <1>5, <2>1
  <2> QED BY <1>1, <2>3, <2>4, PlaceField
<1>8. DOMAIN Descriptors(c) = 1 .. n /\ Len(Descriptors(c)) = n
  BY <1>1, <1>3
<1> QED BY <1>7, <1>8

\* What the sizes and places come to: every field lies in the struct, whose size is a multiple of
\* the largest alignment, which is an alignment and no smaller than any.
LEMMA FieldsWithin ==
  ASSUME NEW c, DeclarationOK(c)
  PROVE  /\ LargestAlignment(c) \in {AlignmentOf(c, k) : k \in DOMAIN c.fields}
         /\ LargestAlignment(c) \in Alignments
         /\ \A k \in 1 .. Len(c.fields) : AlignmentOf(c, k) \in Alignments /\ AlignmentOf(c, k) <= LargestAlignment(c)
         /\ SizeOf(c) \in Nat /\ SizeOf(c) % LargestAlignment(c) = 0
         /\ \A k \in 1 .. Len(c.fields) :
              Descriptors(c)[k].offset + Descriptors(c)[k].size <= SizeOf(c)
<1> DEFINE n == Len(c.fields)
           D == Descriptors(c)
           A == {AlignmentOf(c, k) : k \in DOMAIN c.fields}
           m == LargestAlignment(c)
<1>1. n \in Nat \ {0} /\ c.packed \in BOOLEAN /\ (\A k \in 1 .. n : FieldOK(c.fields[k], c.packed))
      /\ DOMAIN c.fields = 1 .. n
  BY DEF DeclarationOK
<1>2. \A k \in 1 .. n : AlignmentOf(c, k) \in Alignments
  BY <1>1 DEF AlignmentOf, Alignment, FieldOK, Alignments
<1>3. m \in A /\ \A a \in A : a <= m
  <2>1. A \subseteq {1, 2, 4, 8} /\ A # {}
    <3>1. A = {AlignmentOf(c, k) : k \in 1 .. n} /\ 1 \in 1 .. n
      BY <1>1
    <3> HIDE DEF A, n
    <3>2. A \subseteq Alignments
      BY <1>2, <3>1
    <3>3. AlignmentOf(c, 1) \in A
      BY <3>1
    <3> QED BY <3>2, <3>3 DEF Alignments
  <2> HIDE DEF A
  <2>2. \E x \in A : \A y \in A : x >= y
    <3>1. CASE 8 \in A
      <4>1. \A y \in A : 8 >= y
        BY <2>1
      <4> QED BY <3>1, <4>1
    <3>2. CASE 8 \notin A /\ 4 \in A
      <4>1. \A y \in A : 4 >= y
        BY <2>1, <3>2
      <4> QED BY <3>2, <4>1
    <3>3. CASE 8 \notin A /\ 4 \notin A /\ 2 \in A
      <4>1. \A y \in A : 2 >= y
        BY <2>1, <3>3
      <4> QED BY <3>3, <4>1
    <3>4. CASE A \subseteq {1}
      <4>1. A = {1}
        BY <2>1, <3>4
      <4>2. 1 \in A /\ \A y \in A : 1 >= y
        BY <4>1
      <4> QED BY <4>2, Zenon
    <3> QED BY <2>1, <3>1, <3>2, <3>3, <3>4
  <2>3. Max(A) \in A /\ \A y \in A : Max(A) >= y
    BY <2>2, Zenon DEF Max
  <2>4. m = Max(A)
    BY DEF LargestAlignment, A
  <2> HIDE DEF m
  <2> QED BY <2>1, <2>3, <2>4
<1>4. m \in Alignments /\ \A k \in 1 .. n : AlignmentOf(c, k) <= m
  <2> HIDE DEF m
  <2> QED BY <1>1, <1>2, <1>3
<1>5. \A k \in 1 .. n : FreeBit(c, k) \in Nat /\ PlacedWell(D[k], FreeBit(c, k), c.fields[k], c.packed)
  BY DescriptorsAre
<1>6. \A k \in 1 .. n : D[k].next_bit \in Nat
  BY <1>5 DEF PlacedWell
<1>7. \A k \in 1 .. n : k + 1 <= n => D[k].next_bit <= D[k + 1].next_bit
  <2>1. SUFFICES ASSUME NEW k \in 1 .. n, k + 1 <= n PROVE D[k].next_bit <= D[k + 1].next_bit
    OBVIOUS
  <2>2. k + 1 \in 1 .. n /\ FreeBit(c, k + 1) = D[k].next_bit
    BY <1>1, <2>1 DEF FreeBit
  <2> QED BY <1>5, <2>2 DEF PlacedWell
<1> HIDE DEF D
<1>8. \A k \in 1 .. n : D[k].next_bit <= D[n].next_bit
  <2> DEFINE S == {j \in Nat : j < n => D[n - j].next_bit <= D[n].next_bit}
  <2>1. 0 \in S
    BY <1>1, <1>6
  <2>2. ASSUME NEW j \in Nat, j \in S PROVE j + 1 \in S
    <3>1. SUFFICES ASSUME j + 1 < n PROVE D[n - (j + 1)].next_bit <= D[n].next_bit
      OBVIOUS
    <3> DEFINE k == n - (j + 1)
    <3>2. k \in 1 .. n /\ k + 1 <= n /\ k + 1 = n - j /\ k + 1 \in 1 .. n /\ n \in 1 .. n
      BY <1>1, <3>1
    <3>3. D[n - j].next_bit <= D[n].next_bit
      BY <1>1, <2>2, <3>1
    <3> HIDE DEF k
    <3>4. D[k].next_bit <= D[k + 1].next_bit /\ D[k].next_bit \in Nat /\ D[k + 1].next_bit \in Nat
          /\ D[n].next_bit \in Nat /\ D[k + 1].next_bit <= D[n].next_bit
      BY <1>6, <1>7, <3>2, <3>3
    <3>5. D[k].next_bit <= D[n].next_bit
      BY <3>4
    <3> QED BY <3>5 DEF k
  <2> HIDE DEF S
  <2>3. Nat \subseteq S
    BY <2>1, <2>2, NatSetInduction
  <2>4. SUFFICES ASSUME NEW k \in 1 .. n PROVE D[k].next_bit <= D[n].next_bit
    OBVIOUS
  <2>5. n - k \in S /\ n - k < n /\ n - (n - k) = k
    BY <1>1, <2>3
  <2> QED BY <2>5 DEF S
<1> DEFINE total == D[n].next_bit
           bytes == RoundUp(total, 8) \div 8
<1>9. bytes \in Nat /\ total <= 8 * bytes
  <2>1. total \in Nat
    BY <1>1, <1>6
  <2> HIDE DEF total
  <2>2. RoundUp(total, 8) \in Nat /\ RoundUp(total, 8) % 8 = 0 /\ total <= RoundUp(total, 8)
    BY <2>1, RoundsUp DEF Alignments
  <2> QED BY <2>1, <2>2
<1>10. SizeOf(c) = RoundUp(bytes, m)
  <2>1. Last(Descriptors(c)) = D[n]
    BY DescriptorsAre DEF D, Last
  <2> QED BY <2>1 DEF SizeOf, LargestAlignment, AlignmentOf
<1> HIDE DEF bytes, total, m
<1>11. SizeOf(c) \in Nat /\ SizeOf(c) % m = 0 /\ bytes <= SizeOf(c)
  BY <1>4, <1>9, <1>10, RoundsUp
<1>12. ASSUME NEW k \in 1 .. n PROVE D[k].offset + D[k].size <= SizeOf(c)
  <2> DEFINE f == c.fields[k]
             a == AlignmentOf(c, k)
  <2>1. /\ D[k].size = f.size /\ D[k].offset \in Nat /\ D[k].offset % a = 0
        /\ IF f.bits = 0 THEN 8 * (D[k].offset + f.size) = D[k].next_bit ELSE 8 * D[k].offset < D[k].next_bit
    <3>1. PlacedWell(D[k], FreeBit(c, k), f, c.packed) /\ a = Alignment(f, c.packed)
      BY <1>5 DEF AlignmentOf
    <3> HIDE DEF f, a
    <3>2. D[k] = [offset |-> D[k].offset, size |-> f.size, align |-> f.align, bits |-> f.bits,
                  bit_offset |-> D[k].bit_offset, next_bit |-> D[k].next_bit]
      BY <3>1, Zenon DEF PlacedWell
    <3>3. D[k].size = f.size
      BY ONLY <3>2
    <3> QED BY <3>1, <3>3, Zenon DEF PlacedWell
  <2>2. D[k].next_bit \in Nat /\ D[k].next_bit <= 8 * SizeOf(c)
    <3>1. D[k].next_bit <= total /\ D[k].next_bit \in Nat /\ total \in Nat
      BY <1>1, <1>6, <1>8 DEF total
    <3> QED BY <1>9, <1>11, <3>1
  <2>3. FieldOK(f, c.packed)
    BY <1>1
  <2>4. CASE f.bits = 0
    <3>1. f.size \in Nat
      BY <2>3 DEF FieldOK
    <3> QED BY <1>11, <2>1, <2>2, <2>4, <3>1
  <2>5. CASE f.bits # 0
    <3>1. f.size = a
      BY <2>3, <2>5 DEF FieldOK, AlignmentOf, Alignment
    <3>2. a \in Alignments /\ a <= m
      BY <1>2, <1>4
    <3> HIDE DEF a, f
    <3>3. SizeOf(c) % a = 0
      BY <1>4, <1>11, <3>2, AlignmentsDivide
    <3>4. D[k].offset < SizeOf(c)
      BY <1>11, <2>1, <2>2, <2>5
    <3>5. D[k].offset + a <= SizeOf(c)
      BY <1>11, <2>1, <3>2, <3>3, <3>4, NextMultiple
    <3> QED BY <2>1, <3>1, <3>5
  <2> QED BY <2>4, <2>5
<1> QED BY <1>2, <1>3, <1>4, <1>11, <1>12 DEF m, D

(***************************************************************************)
(* Storage units                                                           *)
(***************************************************************************)
FieldCount(c) == Len(c.fields)
UnitOf(c, k) == storage_unit(Descriptors(c)[k], k)
UnitsUpTo(c, n) == {UnitOf(c, k) : k \in 1 .. n}
Units(c) == UnitsUpTo(c, FieldCount(c))
Apart(u, v) == u.offset + u.size <= v.offset \/ v.offset + v.size <= u.offset

\* HasOverlap of the call c.
Clash(c) ==
  \E i, j \in 1 .. FieldCount(c) : i < j /\ Overlapping(Descriptors(c)[i], Descriptors(c)[j])

\* The elements the struct of c may have: at a multiple of the alignment LLVM gives them.
Aligned(c, align) == IF c.packed THEN 1 ELSE align
StructElements(c) ==
  {e \in [kind : {"storage", "padding"}, offset : Nat, size : Nat \ {0}, align : Alignments] :
     e.offset % Aligned(c, e.align) = 0 /\ Aligned(c, e.align) <= LargestAlignment(c)}
StorageOf(u) == [kind |-> "storage", offset |-> u.offset, size |-> u.size, align |-> u.align]

\* A unit is a place that may become an element, within the struct, and the place of a field.
LEMMA UnitFacts ==
  ASSUME NEW c, DeclarationOK(c), NEW k \in 1 .. FieldCount(c)
  PROVE  LET u == UnitOf(c, k)
             d == Descriptors(c)[k]
         IN  /\ u = [offset |-> d.offset, size |-> d.size, align |-> d.align,
                     key |-> IF d.bits = 0 THEN k ELSE 0]
             /\ u.offset \in Nat /\ u.size \in Nat \ {0} /\ u.align \in Alignments
             /\ StorageOf(u) \in StructElements(c)
             /\ u.offset + u.size <= SizeOf(c)
             /\ Aligned(c, u.align) = AlignmentOf(c, k)
             /\ d.bits # 0 => d.size = d.align
<1> DEFINE u == UnitOf(c, k)
           d == Descriptors(c)[k]
           f == c.fields[k]
<1>1. /\ FieldOK(f, c.packed) /\ PlacedWell(d, FreeBit(c, k), f, c.packed)
      /\ d.offset + d.size <= SizeOf(c)
      /\ AlignmentOf(c, k) <= LargestAlignment(c)
  BY DescriptorsAre, FieldsWithin DEF DeclarationOK, FieldCount
<1>2. AlignmentOf(c, k) = Alignment(f, c.packed)
  BY DEF AlignmentOf
<1>3. u = [offset |-> d.offset, size |-> d.size, align |-> d.align,
           key |-> IF d.bits = 0 THEN k ELSE 0]
  BY DEF UnitOf, storage_unit
<1> HIDE DEF u, d, f
<1>4. d.size = f.size /\ d.align = f.align /\ d.bits = f.bits
  <2>1. d = [offset |-> d.offset, size |-> f.size, align |-> f.align, bits |-> f.bits,
             bit_offset |-> d.bit_offset, next_bit |-> d.next_bit]
    BY <1>1, Zenon DEF PlacedWell
  <2> QED BY ONLY <2>1
<1>5. u.offset = d.offset /\ u.size = f.size /\ u.align = f.align
  BY <1>3, <1>4
<1>6. f.size \in Nat \ {0} /\ f.align \in Alignments /\ (f.bits # 0 => f.size = f.align)
  BY <1>1, Zenon DEF FieldOK
<1>7. d.offset \in Nat /\ d.offset % Alignment(f, c.packed) = 0
  BY <1>1, Zenon DEF PlacedWell
<1>8. Aligned(c, u.align) = Alignment(f, c.packed)
  BY <1>5 DEF Aligned, Alignment
<1>9. StorageOf(u) \in StructElements(c)
  <2> DEFINE e == StorageOf(u)
  <2>1. e = [kind |-> "storage", offset |-> u.offset, size |-> u.size, align |-> u.align]
    BY DEF StorageOf
  <2>2. e \in [kind : {"storage", "padding"}, offset : Nat, size : Nat \ {0}, align : Alignments]
        /\ e.offset = d.offset /\ e.align = u.align
    BY <1>5, <1>6, <1>7, <2>1
  <2> HIDE DEF e
  <2>3. e.offset % Aligned(c, e.align) = 0 /\ Aligned(c, e.align) <= LargestAlignment(c)
    BY <1>1, <1>2, <1>7, <1>8, <2>2
  <2>4. e \in StructElements(c)
    BY <2>2, <2>3 DEF StructElements
  <2> QED BY <2>4 DEF e
<1>10. u.offset + u.size <= SizeOf(c)
  BY <1>1, <1>4, <1>5
<1> QED BY <1>2, <1>3, <1>4, <1>5, <1>6, <1>7, <1>8, <1>9, <1>10 DEF u, d

\* Fields overlap where two of the units do.
LEMMA ClashOfUnits ==
  ASSUME NEW c, DeclarationOK(c)
  PROVE  Clash(c) <=> \E u, v \in Units(c) : u # v /\ ~Apart(u, v)
<1> DEFINE n == FieldCount(c)
           D == Descriptors(c)
           U(k) == UnitOf(c, k)
<1>1. \A k \in 1 .. n : /\ U(k) = [offset |-> D[k].offset, size |-> D[k].size, align |-> D[k].align,
                                   key |-> IF D[k].bits = 0 THEN k ELSE 0]
                        /\ D[k].offset \in Nat /\ D[k].size \in Nat
                        /\ D[k].bits # 0 => D[k].size = D[k].align
  <2> SUFFICES ASSUME NEW k \in 1 .. n
               PROVE  /\ U(k) = [offset |-> D[k].offset, size |-> D[k].size, align |-> D[k].align,
                                 key |-> IF D[k].bits = 0 THEN k ELSE 0]
                      /\ D[k].offset \in Nat /\ D[k].size \in Nat
                      /\ D[k].bits # 0 => D[k].size = D[k].align
    OBVIOUS
  <2> DEFINE u == UnitOf(c, k)
  <2>1. /\ u = [offset |-> D[k].offset, size |-> D[k].size, align |-> D[k].align,
                key |-> IF D[k].bits = 0 THEN k ELSE 0]
        /\ u.offset \in Nat /\ u.size \in Nat
        /\ D[k].bits # 0 => D[k].size = D[k].align
    BY UnitFacts
  <2> HIDE DEF u, D
  <2>2. u.offset = D[k].offset /\ u.size = D[k].size
    BY <2>1
  <2>3. D[k].offset \in Nat /\ D[k].size \in Nat
    BY <2>1, <2>2
  <2> QED BY <2>1, <2>3, Zenon DEF u
<1> HIDE DEF D, U
<1>2. \A k \in 1 .. n : U(k).offset = D[k].offset /\ U(k).size = D[k].size
  BY <1>1
<1>3. ASSUME NEW i \in 1 .. n, NEW j \in 1 .. n, i # j
      PROVE  Overlapping(D[i], D[j]) <=> U(i) # U(j) /\ ~Apart(U(i), U(j))
  <2> DEFINE ai == U(i).offset + U(i).size
             aj == U(j).offset + U(j).size
  <2>1. (D[i].offset < D[j].offset + D[j].size /\ D[j].offset < D[i].offset + D[i].size)
           <=> ~Apart(U(i), U(j))
    BY <1>1, <1>2 DEF Apart
  <2>2. (D[i].bits = 0 \/ D[j].bits = 0 \/ D[i].offset # D[j].offset \/ D[i].size # D[j].size)
           <=> U(i) # U(j)
    <3>1. CASE D[i].bits = 0 \/ D[j].bits = 0
      <4>1. U(i).key # U(j).key
        BY <1>1, <1>3, <3>1
      <4> QED BY <3>1, <4>1
    <3>2. CASE D[i].bits # 0 /\ D[j].bits # 0
      <4>1. /\ U(i) = [offset |-> D[i].offset, size |-> D[i].size, align |-> D[i].size, key |-> 0]
            /\ U(j) = [offset |-> D[j].offset, size |-> D[j].size, align |-> D[j].size, key |-> 0]
        BY <1>1, <3>2
      <4> QED BY <3>2, <4>1, <1>2
    <3> QED BY <3>1, <3>2
  <2> QED BY <2>1, <2>2, Zenon DEF Overlapping
<1>4. Units(c) = {U(k) : k \in 1 .. n}
  BY DEF Units, UnitsUpTo, U
<1>5. ASSUME Clash(c) PROVE \E u, v \in Units(c) : u # v /\ ~Apart(u, v)
  <2>1. PICK i \in 1 .. n, j \in 1 .. n : i < j /\ Overlapping(D[i], D[j])
    BY <1>5 DEF Clash, D
  <2>2. i # j
    BY <2>1
  <2>3. U(i) # U(j) /\ ~Apart(U(i), U(j))
    BY <1>3, <2>1, <2>2
  <2> QED BY <1>4, <2>3
<1>6. ASSUME NEW u \in Units(c), NEW v \in Units(c), u # v, ~Apart(u, v) PROVE Clash(c)
  <2>1. PICK i \in 1 .. n, j \in 1 .. n : u = U(i) /\ v = U(j)
    BY <1>4
  <2>2. i # j
    BY <1>6, <2>1
  <2>3. Overlapping(D[i], D[j]) /\ Overlapping(D[j], D[i])
    <3>1. Apart(v, u) <=> Apart(u, v)
      BY DEF Apart
    <3> QED BY <1>3, <1>6, <2>1, <2>2, <3>1
  <2>4. i < j \/ j < i
    BY <2>2
  <2> QED BY <2>3, <2>4 DEF Clash, D
<1> QED BY <1>5, <1>6

(***************************************************************************)
(* The units in order, and the elements they become                        *)
(***************************************************************************)
\* The units sorted by offset.
Ordered(c, s) ==
  /\ s \in Seq(Units(c))
  /\ \A u \in Units(c) : \E i \in 1 .. Len(s) : s[i] = u
  /\ \A i, j \in 1 .. Len(s) : s[i] = s[j] => i = j
  /\ \A i, j \in 1 .. Len(s) : i < j => s[i].offset <= s[j].offset

\* The first i units lie one after the other; where the last of them ends.
Clear(s, i) == \A j, k \in 1 .. i : j < k => s[j].offset + s[j].size <= s[k].offset
EndOf(s, i) == IF i = 0 THEN 0 ELSE s[i].offset + s[i].size

\* The elements cover the bytes up to end, each once.
Tiled(p, end) ==
  /\ \A i \in 1 .. Len(p) : p[i].offset = IF i = 1 THEN 0 ELSE p[i - 1].offset + p[i - 1].size
  /\ end = IF Len(p) = 0 THEN 0 ELSE p[Len(p)].offset + p[Len(p)].size

\* Each of the first i units is an element.
Holds(s, i, p) == \A j \in 1 .. i : \E k \in 1 .. Len(p) : p[k] = StorageOf(s[j])

\* What is known of every unit of an ordered sequence.
LEMMA OrderedUnits ==
  ASSUME NEW c, DeclarationOK(c), NEW s, Ordered(c, s)
  PROVE  /\ Len(s) \in Nat
         /\ \A i \in 1 .. Len(s) :
              /\ s[i] \in Units(c) /\ s[i].offset \in Nat /\ s[i].size \in Nat \ {0}
              /\ StorageOf(s[i]) \in StructElements(c) /\ s[i].offset + s[i].size <= SizeOf(c)
<1>1. s \in Seq(Units(c)) /\ Len(s) \in Nat
  BY LenProperties DEF Ordered
<1>2. ASSUME NEW i \in 1 .. Len(s)
      PROVE  /\ s[i] \in Units(c) /\ s[i].offset \in Nat /\ s[i].size \in Nat \ {0}
             /\ StorageOf(s[i]) \in StructElements(c) /\ s[i].offset + s[i].size <= SizeOf(c)
  <2>1. s[i] \in Units(c)
    BY <1>1, ElementOfSeq
  <2>2. PICK k \in 1 .. FieldCount(c) : s[i] = UnitOf(c, k)
    BY <2>1 DEF Units, UnitsUpTo
  <2> QED BY <2>1, <2>2, UnitFacts
<1> QED BY <1>1, <1>2

\* Units that do not overlap lie one after the other once sorted, and conversely.
LEMMA ClearUnits ==
  ASSUME NEW c, DeclarationOK(c), NEW s, Ordered(c, s)
  PROVE  Clear(s, Len(s)) <=> ~Clash(c)
<1>1. /\ Len(s) \in Nat
      /\ \A i \in 1 .. Len(s) : s[i] \in Units(c) /\ s[i].offset \in Nat /\ s[i].size \in Nat \ {0}
  BY OrderedUnits
<1>2. /\ \A u \in Units(c) : \E i \in 1 .. Len(s) : s[i] = u
      /\ \A i, j \in 1 .. Len(s) : s[i] = s[j] => i = j
      /\ \A i, j \in 1 .. Len(s) : i < j => s[i].offset <= s[j].offset
  BY DEF Ordered
<1>3. ASSUME ~Clash(c), NEW j \in 1 .. Len(s), NEW k \in 1 .. Len(s), j < k
      PROVE  s[j].offset + s[j].size <= s[k].offset
  <2>1. s[j] # s[k]
    BY <1>2, <1>3
  <2>2. Apart(s[j], s[k])
    BY <1>1, <1>3, <2>1, ClashOfUnits
  <2>3. s[j].offset <= s[k].offset
    BY <1>2, <1>3
  <2>4. s[j].offset \in Nat /\ s[k].offset \in Nat /\ s[j].size \in Nat \ {0} /\ s[k].size \in Nat \ {0}
    BY <1>1
  <2> QED BY <2>2, <2>3, <2>4 DEF Apart
<1>4. ASSUME Clear(s, Len(s)), NEW u \in Units(c), NEW v \in Units(c), u # v PROVE Apart(u, v)
  <2>1. PICK i \in 1 .. Len(s), j \in 1 .. Len(s) : s[i] = u /\ s[j] = v
    BY <1>2
  <2>2. i < j \/ j < i
    BY <1>4, <2>1
  <2>3. u.offset + u.size <= v.offset \/ v.offset + v.size <= u.offset
    BY <1>4, <2>1, <2>2 DEF Clear
  <2> QED BY <2>3 DEF Apart
<1> QED BY <1>3, <1>4, ClashOfUnits DEF Clear

\* The next unit is clear of the earlier ones if it begins where the last of them ends or later.
LEMMA ClearMore ==
  ASSUME NEW c, DeclarationOK(c), NEW s, Ordered(c, s), NEW i \in 1 .. Len(s),
         Clear(s, i - 1), EndOf(s, i - 1) <= s[i].offset
  PROVE  Clear(s, i)
<1>1. /\ Len(s) \in Nat
      /\ \A k \in 1 .. Len(s) : s[k].offset \in Nat /\ s[k].size \in Nat \ {0}
  BY OrderedUnits
<1>2. SUFFICES ASSUME NEW j \in 1 .. i, NEW k \in 1 .. i, j < k
               PROVE  s[j].offset + s[j].size <= s[k].offset
  BY DEF Clear
<1>3. CASE k <= i - 1
  BY <1>2, <1>3 DEF Clear
<1>4. CASE k = i /\ j = i - 1
  <2>1. EndOf(s, i - 1) = s[j].offset + s[j].size
    BY <1>4 DEF EndOf
  <2> QED BY <1>4, <2>1
<1>5. CASE k = i /\ j < i - 1
  <2> DEFINE l == i - 1
  <2>1. l \in 1 .. i - 1 /\ j \in 1 .. i - 1 /\ l \in 1 .. Len(s) /\ l # 0 /\ j \in 1 .. Len(s)
    BY <1>1, <1>5
  <2>2. s[j].offset + s[j].size <= s[l].offset
    BY <1>5, <2>1 DEF Clear
  <2>3. s[l].offset + s[l].size <= s[i].offset
    BY <2>1 DEF EndOf
  <2>4. s[j].offset \in Nat /\ s[j].size \in Nat /\ s[l].offset \in Nat /\ s[l].size \in Nat /\ s[i].offset \in Nat
    BY <1>1, <2>1
  <2> HIDE DEF l
  <2>5. s[j].offset + s[j].size <= s[i].offset
    <3>1. \A o, z, p, y, q \in Nat : o + z <= p /\ p + y <= q => o + z <= q
      OBVIOUS
    <3> QED BY <2>2, <2>3, <2>4, <3>1, Zenon
  <2> QED BY <1>5, <2>5
<1> QED BY <1>2, <1>3, <1>4, <1>5

\* An element at the end covers on.
LEMMA TileMore ==
  ASSUME NEW S, NEW p \in Seq(S), NEW end, Tiled(p, end), NEW e \in S, e.offset = end
  PROVE  /\ p \o <<e>> \in Seq(S) /\ Tiled(p \o <<e>>, e.offset + e.size)
         /\ Len(p \o <<e>>) = Len(p) + 1 /\ (p \o <<e>>)[Len(p) + 1] = e
         /\ \A i \in 1 .. Len(p) : (p \o <<e>>)[i] = p[i]
<1> DEFINE q == p \o <<e>>
<1>1. <<e>> \in Seq(S) /\ Len(<<e>>) = 1 /\ <<e>>[1] = e /\ Len(p) \in Nat
  BY LenProperties
<1>2. /\ q \in Seq(S) /\ Len(q) = Len(p) + 1
      /\ \A i \in 1 .. Len(p) + 1 : q[i] = IF i <= Len(p) THEN p[i] ELSE <<e>>[i - Len(p)]
  BY <1>1, ConcatProperties
<1>3. (\A i \in 1 .. Len(p) : q[i] = p[i]) /\ q[Len(p) + 1] = e
  BY <1>1, <1>2
<1> HIDE DEF q
<1>4. ASSUME NEW i \in 1 .. Len(q) PROVE q[i].offset = IF i = 1 THEN 0 ELSE q[i - 1].offset + q[i - 1].size
  <2>1. CASE i = Len(p) + 1
    <3>1. q[i] = e /\ (i # 1 => q[i - 1] = p[Len(p)]) /\ (i = 1 <=> Len(p) = 0)
      BY <1>1, <1>3, <2>1
    <3> QED BY <3>1 DEF Tiled
  <2>2. CASE i # Len(p) + 1
    <3>1. i \in 1 .. Len(p) /\ (i # 1 => i - 1 \in 1 .. Len(p))
      BY <1>1, <1>2, <2>2
    <3>2. q[i] = p[i] /\ (i # 1 => q[i - 1] = p[i - 1])
      BY <1>3, <3>1
    <3> QED BY <3>1, <3>2 DEF Tiled
  <2> QED BY <2>1, <2>2
<1>5. Tiled(q, e.offset + e.size)
  BY <1>1, <1>2, <1>3, <1>4 DEF Tiled
<1> QED BY <1>2, <1>3, <1>5 DEF q

\* Padding is an element, and a unit after it another.
LEMMA PaddingElement ==
  ASSUME NEW c, DeclarationOK(c), NEW from \in Nat, NEW to \in Nat
  PROVE  Padding(from, to) \in Seq(StructElements(c))
<1> DEFINE e == [kind |-> "padding", offset |-> from, size |-> to - from, align |-> 1]
<1>1. CASE to > from
  <2>1. LargestAlignment(c) >= 1 /\ Aligned(c, 1) = 1
    BY FieldsWithin DEF Aligned, Alignments
  <2>2. e \in [kind : {"storage", "padding"}, offset : Nat, size : Nat \ {0}, align : Alignments]
        /\ e.offset = from /\ e.align = 1
    BY <1>1 DEF Alignments
  <2> HIDE DEF e
  <2>3. e.offset % Aligned(c, e.align) = 0 /\ Aligned(c, e.align) <= LargestAlignment(c)
    BY <2>1, <2>2
  <2>4. e \in StructElements(c)
    BY <2>2, <2>3 DEF StructElements
  <2>5. Padding(from, to) = <<e>>
    BY <1>1 DEF Padding, e
  <2> QED BY <2>4, <2>5
<1>2. CASE ~(to > from)
  BY <1>2 DEF Padding
<1> QED BY <1>1, <1>2

\* Padding after a tiling that ends at `from` tiles up to `to`.
LEMMA PaddingTiles ==
  ASSUME NEW c, DeclarationOK(c), NEW p \in Seq(StructElements(c)), NEW from \in Nat, NEW to \in Nat
  PROVE  /\ p \o Padding(from, to) \in Seq(StructElements(c))
         /\ Len(p \o Padding(from, to)) >= Len(p)
         /\ \A i \in 1 .. Len(p) : (p \o Padding(from, to))[i] = p[i]
         /\ Tiled(p, from) /\ from <= to => Tiled(p \o Padding(from, to), to)
<1> DEFINE e == [kind |-> "padding", offset |-> from, size |-> to - from, align |-> 1]
           P == Padding(from, to)
<1>1. P \in Seq(StructElements(c)) /\ Len(p) \in Nat /\ Len(P) \in Nat
  BY PaddingElement, LenProperties
<1>2. /\ p \o P \in Seq(StructElements(c)) /\ Len(p \o P) = Len(p) + Len(P)
      /\ \A i \in 1 .. Len(p) + Len(P) : (p \o P)[i] = IF i <= Len(p) THEN p[i] ELSE P[i - Len(p)]
  <2> HIDE DEF P
  <2> QED BY <1>1, ConcatProperties
<1>3. ASSUME Tiled(p, from), from <= to PROVE Tiled(p \o P, to)
  <2>1. CASE to > from
    <3>1. P = <<e>> /\ e.offset = from /\ e.size = to - from
      BY <2>1 DEF Padding
    <3> HIDE DEF P, e
    <3>2. e \in StructElements(c)
      BY <1>1, <3>1
    <3>3. Tiled(p \o <<e>>, e.offset + e.size)
      BY <1>3, <3>1, <3>2, TileMore
    <3>4. e.offset + e.size = to
      BY <3>1
    <3> QED BY <3>1, <3>3, <3>4
  <2>2. CASE to = from
    <3>1. P = <<>>
      BY <2>2 DEF Padding
    <3>2. p \o P = p
      BY <3>1, ConcatEmptySeq
    <3> QED BY <1>3, <2>2, <3>2
  <2> QED BY <1>3, <2>1, <2>2
<1> HIDE DEF P
<1>4. Len(p \o P) >= Len(p) /\ \A i \in 1 .. Len(p) : (p \o P)[i] = p[i]
  BY <1>1, <1>2
<1> QED BY <1>2, <1>3, <1>4 DEF P

\* The struct LLVM makes of elements that cover it: each where ctypes has it, in all of its size.
LEMMA TiledIsLlvm ==
  ASSUME DeclarationOK(call), memory.physical \in Seq(StructElements(call)),
         Tiled(memory.physical, SizeOf(call)),
         \A k \in 1 .. FieldCount(call) :
            \E i \in 1 .. Len(memory.physical) : memory.physical[i] = StorageOf(UnitOf(call, k))
  PROVE  /\ \A i \in DOMAIN memory.physical : LlvmOffset[i] = memory.physical[i].offset
         /\ LlvmSize = SizeOf(call)
<1> DEFINE p == memory.physical
           n == Len(p)
           m == LargestAlignment(call)
           A(i) == ElementAlignment(p[i])
           offsets == [i \in 1 .. n |-> p[i].offset]
           at == CHOOSE f : f = [i \in 1 .. n |->
                   RoundUp(IF i = 1 THEN 0 ELSE f[i - 1] + p[i - 1].size, A(i))]
<1>1. n \in Nat /\ DOMAIN p = 1 .. n
  BY LenProperties
<1>2. \A i \in 1 .. n : /\ p[i].offset \in Nat /\ p[i].size \in Nat /\ p[i].align \in Alignments
                        /\ p[i].offset % A(i) = 0 /\ A(i) \in Alignments /\ A(i) <= m
                        /\ A(i) = Aligned(call, p[i].align)
  <2>1. SUFFICES ASSUME NEW i \in 1 .. n
                 PROVE  /\ p[i].offset \in Nat /\ p[i].size \in Nat /\ p[i].align \in Alignments
                        /\ p[i].offset % A(i) = 0 /\ A(i) \in Alignments /\ A(i) <= m
                        /\ A(i) = Aligned(call, p[i].align)
    OBVIOUS
  <2>2. p[i] \in StructElements(call)
    BY ElementOfSeq
  <2>3. /\ p[i].offset \in Nat /\ p[i].size \in Nat /\ p[i].align \in Alignments
        /\ p[i].offset % Aligned(call, p[i].align) = 0 /\ Aligned(call, p[i].align) <= m
    <3> HIDE DEF p, m
    <3> QED BY <2>2 DEF StructElements, m
  <2>4. A(i) = Aligned(call, p[i].align)
    BY DEF ElementAlignment, Aligned
  <2>5. A(i) \in Alignments
    BY <2>3, <2>4 DEF Aligned, Alignments
  <2> HIDE DEF p, m, A
  <2> QED BY <2>3, <2>4, <2>5
<1>3. \A i \in 1 .. n : p[i].offset = IF i = 1 THEN 0 ELSE p[i - 1].offset + p[i - 1].size
  BY DEF Tiled
<1>4. SizeOf(call) = IF n = 0 THEN 0 ELSE p[n].offset + p[n].size
  BY DEF Tiled
<1>5. 1 \in 1 .. FieldCount(call)
  BY DEF DeclarationOK, FieldCount
<1>6. n # 0
  BY <1>1, <1>5
<1>7. LlvmOffset = at
  BY DEF LlvmOffset
<1> HIDE DEF p, A
<1>8. ASSUME NEW i \in 1 .. n PROVE offsets[i] = RoundUp(IF i = 1 THEN 0 ELSE offsets[i - 1] + p[i - 1].size, A(i))
  <2>1. i # 1 => offsets[i - 1] = p[i - 1].offset
    BY <1>1
  <2>2. p[i].offset = IF i = 1 THEN 0 ELSE offsets[i - 1] + p[i - 1].size
    BY <1>3, <2>1
  <2>3. RoundUp(p[i].offset, A(i)) = p[i].offset
    BY <1>2, RoundsUp
  <2> HIDE DEF offsets
  <2>4. p[i].offset = RoundUp(IF i = 1 THEN 0 ELSE offsets[i - 1] + p[i - 1].size, A(i))
    BY <2>2, <2>3, Zenon
  <2> QED BY <2>4 DEF offsets
<1>9. at = [i \in 1 .. n |-> RoundUp(IF i = 1 THEN 0 ELSE at[i - 1] + p[i - 1].size, A(i))]
  <2>1. offsets = [i \in 1 .. n |-> offsets[i]]
    OBVIOUS
  <2> HIDE DEF offsets
  <2>2. offsets = [i \in 1 .. n |-> RoundUp(IF i = 1 THEN 0 ELSE offsets[i - 1] + p[i - 1].size, A(i))]
    BY <1>8, <2>1
  <2> QED BY <2>2
<1> HIDE DEF at
<1>10. \A i \in 1 .. n : at[i] = p[i].offset
  <2> DEFINE G == {i \in Nat : i + 1 <= n => at[i + 1] = p[i + 1].offset}
  <2>1. \A i \in 1 .. n : at[i] = RoundUp(IF i = 1 THEN 0 ELSE at[i - 1] + p[i - 1].size, A(i))
    BY <1>9
  <2>2. \A i \in 1 .. n : p[i].offset = RoundUp(IF i = 1 THEN 0 ELSE p[i - 1].offset + p[i - 1].size, A(i))
    BY <1>2, <1>3, RoundsUp
  <2>3. 0 \in G
    BY <1>1, <2>1, <2>2
  <2>4. ASSUME NEW i \in Nat, i \in G PROVE i + 1 \in G
    <3>1. SUFFICES ASSUME i + 2 <= n PROVE at[i + 2] = p[i + 2].offset
      OBVIOUS
    <3>2. at[i + 1] = p[i + 1].offset /\ i + 2 \in 1 .. n /\ i + 2 # 1 /\ (i + 2) - 1 = i + 1
      BY <1>1, <2>4, <3>1
    <3>3. at[i + 2] = RoundUp(at[i + 1] + p[i + 1].size, A(i + 2))
      BY <2>1, <3>2
    <3>4. p[i + 2].offset = RoundUp(p[i + 1].offset + p[i + 1].size, A(i + 2))
      BY <2>2, <3>2
    <3> QED BY <3>2, <3>3, <3>4
  <2> HIDE DEF G
  <2>5. Nat \subseteq G
    BY <2>3, <2>4, NatSetInduction
  <2>6. SUFFICES ASSUME NEW i \in 1 .. n PROVE at[i] = p[i].offset
    OBVIOUS
  <2>7. i - 1 \in G /\ (i - 1) + 1 = i
    BY <2>5
  <2> QED BY <2>7 DEF G
<1>11. m \in Alignments /\ SizeOf(call) \in Nat /\ SizeOf(call) % m = 0
  BY FieldsWithin
<1>12. \E i \in 1 .. n : A(i) = m
  <2>1. PICK k \in 1 .. FieldCount(call) : m = AlignmentOf(call, k)
    BY FieldsWithin DEF DeclarationOK, FieldCount
  <2>2. PICK i \in 1 .. n : p[i] = StorageOf(UnitOf(call, k))
    BY DEF p
  <2>3. p[i].align = UnitOf(call, k).align
    <3>1. \A u : StorageOf(u).align = u.align
      BY DEF StorageOf
    <3> QED BY <2>2, <3>1, Zenon
  <2>4. Aligned(call, UnitOf(call, k).align) = AlignmentOf(call, k)
    BY UnitFacts
  <2> QED BY <1>2, <2>1, <2>3, <2>4
<1> DEFINE B == {A(i) : i \in 1 .. n}
<1>13. Max(B) = m
  <2>1. m \in B /\ \A b \in B : b \in Nat /\ b <= m
    BY <1>2, <1>12 DEF Alignments
  <2>2. m \in Nat
    BY <1>11 DEF Alignments
  <2> HIDE DEF B, m
  <2>3. \A b \in B : m >= b
    BY <2>1, <2>2
  <2>4. Max(B) \in B /\ \A y \in B : Max(B) >= y
    BY <2>1, <2>3, Zenon DEF Max
  <2>5. Max(B) \in Nat /\ Max(B) <= m /\ Max(B) >= m
    BY <2>1, <2>4
  <2> QED BY <2>2, <2>5
<1>14. LlvmSize = RoundUp(at[n] + p[n].size, Max(B))
  BY <1>7 DEF LlvmSize, p, A
<1>15. at[n] + p[n].size = SizeOf(call)
  BY <1>1, <1>4, <1>6, <1>10
<1>16. LlvmSize = SizeOf(call)
  BY <1>11, <1>13, <1>14, <1>15, RoundsUp
<1> QED BY <1>1, <1>7, <1>10, <1>16 DEF p

(***************************************************************************)
(* The reification's invariant                                             *)
(***************************************************************************)
Collecting(c, e, m) ==
  /\ e = [field |-> e.field] /\ e.field \in 1 .. FieldCount(c) + 1
  /\ m.storage \in Seq(Units(c))
  /\ {m.storage[i] : i \in 1 .. Len(m.storage)} = UnitsUpTo(c, e.field - 1)
  /\ m.physical = <<>> /\ m.current_offset = 0

Placing(c, e, m) ==
  /\ Ordered(c, m.storage)
  /\ e = [unit |-> e.unit] /\ e.unit \in 1 .. Len(m.storage) + 1
  /\ m.current_offset = EndOf(m.storage, e.unit - 1)
  /\ c.fn = PromotedReification => Clear(m.storage, e.unit - 1)
  /\ ~Clash(c) => Tiled(m.physical, m.current_offset)
  /\ Holds(m.storage, e.unit - 1, m.physical)

Reified(c, e, m) ==
  /\ e.result = IF Clash(c) /\ c.fn = PromotedReification THEN "ValueError" ELSE "handle"
  /\ ~Clash(c) => /\ Tiled(m.physical, SizeOf(c))
                  /\ \A k \in 1 .. FieldCount(c) :
                       \E i \in 1 .. Len(m.physical) : m.physical[i] = StorageOf(UnitOf(c, k))

LayoutState(c, b, e, m) ==
  /\ c \in StructDeclarations
  /\ m = [storage |-> m.storage, physical |-> m.physical, current_offset |-> m.current_offset]
  /\ m.physical \in Seq(StructElements(c))
  /\ \/ b = "collect" /\ Collecting(c, e, m)
     \/ b = "place" /\ Placing(c, e, m)
     \/ b = "returned" /\ Reified(c, e, m)

LayoutInv ==
  /\ call.fn \in Reifications
  /\ block \in {"collect", "place", "returned"}
  /\ LayoutState(call, block, env, memory)

\* A reification begins with no unit and no element.
LEMMA LayoutInitial == LayoutInit => LayoutInv
<1> SUFFICES ASSUME LayoutInit PROVE LayoutInv
  OBVIOUS
<1>1. /\ call \in StructDeclarations /\ block = "collect" /\ env = [field |-> 1]
      /\ memory = [storage |-> <<>>, physical |-> <<>>, current_offset |-> 0]
  BY DEF LayoutInit
<1>2. call.fn \in Reifications /\ DeclarationOK(call)
  BY <1>1, DeclarationsOK
<1>3. memory.storage = <<>> /\ memory.physical = <<>> /\ memory.current_offset = 0 /\ env.field = 1
  BY <1>1
<1>4. 1 \in 1 .. FieldCount(call) + 1
  BY <1>2 DEF DeclarationOK, FieldCount
<1>5. {memory.storage[i] : i \in 1 .. Len(memory.storage)} = UnitsUpTo(call, 1 - 1)
  BY <1>3 DEF UnitsUpTo
<1>6. Collecting(call, env, memory)
  BY <1>1, <1>3, <1>4, <1>5, EmptySeq DEF Collecting
<1>7. memory.physical \in Seq(StructElements(call))
  BY <1>3, EmptySeq
<1>8. LayoutState(call, block, env, memory)
  BY <1>1, <1>3, <1>6, <1>7 DEF LayoutState
<1> QED BY <1>1, <1>2, <1>8 DEF LayoutInv

\* collect_field adds the field's unit, unless the one it shares is there.
LEMMA CollectKeeps ==
  ASSUME DeclarationOK(call), LayoutState(call, block, env, memory), collect_field
  PROVE  block' = "collect" /\ LayoutState(call, block', env', memory')
<1> DEFINE k == env.field
           n == FieldCount(call)
           unit == UnitOf(call, k)
           s == memory.storage
           known == \E i \in DOMAIN s : s[i] = unit
           t == IF known THEN s ELSE Append(s, unit)
<1>1. /\ block = "collect" /\ block' = "collect" /\ k <= n
      /\ memory' = IF known THEN memory ELSE [memory EXCEPT !.storage = Append(s, unit)]
      /\ env' = [env EXCEPT !.field = k + 1]
  BY DEF collect_field, InLayout, At, UnitOf, FieldCount
<1>2. /\ call \in StructDeclarations
      /\ memory = [storage |-> s, physical |-> memory.physical, current_offset |-> memory.current_offset]
      /\ memory.physical \in Seq(StructElements(call))
      /\ Collecting(call, env, memory)
  BY <1>1 DEF LayoutState
<1>3. /\ env = [field |-> k] /\ k \in 1 .. n + 1 /\ s \in Seq(Units(call))
      /\ {s[i] : i \in 1 .. Len(s)} = UnitsUpTo(call, k - 1)
      /\ memory.physical = <<>> /\ memory.current_offset = 0
  BY <1>2 DEF Collecting
<1>4. memory' = [storage |-> t, physical |-> <<>>, current_offset |-> 0]
  <2> HIDE DEF known, unit
  <2>1. CASE known
    <3>1. t = s /\ memory' = memory
      BY <1>1, <2>1
    <3> QED BY <1>2, <1>3, <3>1
  <2>2. CASE ~known
    <3>1. t = Append(s, unit) /\ memory' = [memory EXCEPT !.storage = Append(s, unit)]
      BY <1>1, <2>2
    <3> QED BY <1>2, <1>3, <3>1
  <2> QED BY <2>1, <2>2
<1>5. n \in Nat /\ k \in 1 .. n
  BY <1>1, <1>3 DEF DeclarationOK, FieldCount
<1>6. unit \in Units(call)
  BY <1>5 DEF Units, UnitsUpTo
<1>7. UnitsUpTo(call, k) = UnitsUpTo(call, k - 1) \cup {unit}
  <2>1. \A j : j \in 1 .. k <=> (j \in 1 .. k - 1 \/ j = k)
    BY <1>5
  <2> QED BY <2>1 DEF UnitsUpTo
<1>8. t \in Seq(Units(call)) /\ {t[i] : i \in 1 .. Len(t)} = UnitsUpTo(call, k)
  <2> HIDE DEF unit
  <2>1. Len(s) \in Nat /\ DOMAIN s = 1 .. Len(s)
    BY <1>3, LenProperties
  <2>2. CASE known
    <3>1. unit \in {s[i] : i \in 1 .. Len(s)} /\ t = s
      BY <2>1, <2>2
    <3> QED BY <1>3, <1>7, <3>1
  <2>3. CASE ~known
    <3>1. t = Append(s, unit)
      BY <2>3
    <3> HIDE DEF t, known, s
    <3>2. t \in Seq(Units(call)) /\ Len(t) = Len(s) + 1 /\ (\A i \in 1 .. Len(s) : t[i] = s[i])
          /\ t[Len(s) + 1] = unit
      BY <1>3, <1>6, <3>1, AppendProperties
    <3>3. {t[i] : i \in 1 .. Len(t)} = {s[i] : i \in 1 .. Len(s)} \cup {unit}
      <4>1. \A i : i \in 1 .. Len(t) <=> (i \in 1 .. Len(s) \/ i = Len(s) + 1)
        BY <2>1, <3>2
      <4> QED BY <3>2, <4>1
    <3> QED BY <1>3, <1>7, <3>2, <3>3
  <2> QED BY <2>2, <2>3
<1> HIDE DEF t
<1>9. env' = [field |-> k + 1] /\ env'.field = k + 1 /\ k + 1 \in 1 .. n + 1 /\ (k + 1) - 1 = k
  BY <1>1, <1>3, <1>5
<1>10. memory'.storage = t /\ memory'.physical = <<>> /\ memory'.current_offset = 0
  BY <1>4
<1> HIDE DEF k, n
<1>11. Collecting(call, env', memory')
  BY <1>8, <1>9, <1>10 DEF Collecting, n
<1>12. memory'.physical \in Seq(StructElements(call))
  BY <1>10, EmptySeq
<1>13. memory' = [storage |-> memory'.storage, physical |-> memory'.physical,
                  current_offset |-> memory'.current_offset]
  BY <1>4, <1>10
<1> QED BY <1>1, <1>2, <1>11, <1>12, <1>13, Zenon DEF LayoutState

\* An order of the set of the units, by offset, is what Ordered asks.
LEMMA OrdersAreOrdered ==
  ASSUME NEW c, DeclarationOK(c), NEW s \in Seq(Units(c)), {s[i] : i \in 1 .. Len(s)} = Units(c),
         NEW order \in SetToSeqs(Range(s)),
         \A i \in 1 .. Len(order) - 1 : order[i].offset <= order[i + 1].offset
  PROVE  Ordered(c, order)
<1> DEFINE S == Units(c)
           w == Cardinality(S)
<1>1. Len(s) \in Nat /\ DOMAIN s = 1 .. Len(s) /\ s \in [1 .. Len(s) -> S]
  BY LenProperties
<1>2. Range(s) = S
  BY <1>1 DEF Range
<1>3. IsFiniteSet(S) /\ w \in Nat
  <2>1. s \in Surjection(1 .. Len(s), S)
    <3>1. \A u \in S : \E i \in 1 .. Len(s) : s[i] = u
      OBVIOUS
    <3> HIDE DEF S
    <3> QED BY <1>1, <3>1 DEF Surjection
  <2>2. IsFiniteSet(1 .. Len(s))
    BY <1>1, FS_Interval
  <2> HIDE DEF S
  <2> QED BY <2>1, <2>2, FS_Surjection, FS_CardinalityType
<1>4. order \in [1 .. w -> S] /\ \A i, j \in 1 .. w : i # j => order[i] # order[j]
  BY <1>2 DEF SetToSeqs
<1>5. Len(order) = w /\ order \in Seq(S)
  <2> HIDE DEF w, S
  <2> QED BY <1>3, <1>4
<1>6. \A u \in S : \E i \in 1 .. w : order[i] = u
  <2>1. order \in Injection(1 .. w, S)
    <3>1. IsInjective(order)
      <4> HIDE DEF S, w
      <4> QED BY <1>4 DEF IsInjective
    <3> HIDE DEF S, w
    <3> QED BY <1>4, <3>1 DEF Injection
  <2>2. Cardinality(1 .. w) = w
    <3> HIDE DEF w
    <3>1. Cardinality(1 .. w) = IF 1 > w THEN 0 ELSE w - 1 + 1
      <4>1. 1 \in Int /\ w \in Int
        BY <1>3
      <4> QED BY <4>1, FS_Interval, Zenon
    <3> QED BY <1>3, <3>1
  <2>3. order \in Surjection(1 .. w, S)
    <3>1. Cardinality(1 .. w) = Cardinality(S)
      BY <2>2
    <3> HIDE DEF S, w
    <3> QED BY <1>3, <2>1, <3>1, FS_Injection
  <2> HIDE DEF S, w
  <2> QED BY <2>3 DEF Surjection
<1>7. \A i \in 1 .. w : order[i].offset \in Nat
  <2> SUFFICES ASSUME NEW i \in 1 .. w PROVE order[i].offset \in Nat
    OBVIOUS
  <2>1. PICK k \in 1 .. FieldCount(c) : order[i] = UnitOf(c, k)
    BY <1>4 DEF Units, UnitsUpTo
  <2> QED BY <2>1, UnitFacts
<1> HIDE DEF S, w
<1>8. \A i, j \in 1 .. w : i < j => order[i].offset <= order[j].offset
  <2> DEFINE G == {d \in Nat : \A i \in 1 .. w : i + d <= w => order[i].offset <= order[i + d].offset}
  <2>1. 0 \in G
    BY <1>7
  <2>2. ASSUME NEW d \in Nat, d \in G PROVE d + 1 \in G
    <3>1. SUFFICES ASSUME NEW i \in 1 .. w, i + (d + 1) <= w PROVE order[i].offset <= order[i + (d + 1)].offset
      OBVIOUS
    <3>2. i + d \in 1 .. Len(order) - 1 /\ (i + d) + 1 = i + (d + 1) /\ i + d \in 1 .. w /\ i + (d + 1) \in 1 .. w
          /\ i + d <= w
      BY <1>3, <1>5, <3>1
    <3>3. order[i].offset <= order[i + d].offset
      BY <2>2, <3>2
    <3>4. order[i + d].offset <= order[i + (d + 1)].offset
      <4>1. order[i + d].offset <= order[(i + d) + 1].offset
        BY <3>2
      <4> QED BY <3>2, <4>1
    <3>5. order[i].offset \in Nat /\ order[i + d].offset \in Nat /\ order[i + (d + 1)].offset \in Nat
      BY <1>7, <3>2
    <3>6. \A x, y, z \in Nat : x <= y /\ y <= z => x <= z
      OBVIOUS
    <3> QED BY <3>3, <3>4, <3>5, <3>6, Zenon
  <2> HIDE DEF G
  <2>3. Nat \subseteq G
    BY <2>1, <2>2, NatSetInduction
  <2>4. SUFFICES ASSUME NEW i \in 1 .. w, NEW j \in 1 .. w, i < j PROVE order[i].offset <= order[j].offset
    OBVIOUS
  <2>5. j - i \in G /\ i + (j - i) = j /\ i + (j - i) <= w
    BY <1>3, <2>3, <2>4
  <2>6. order[i].offset <= order[i + (j - i)].offset
    BY <2>5 DEF G
  <2> QED BY <2>5, <2>6
<1> QED BY <1>4, <1>5, <1>6, <1>8 DEF Ordered, S

\* sort_storage orders them; nothing is placed yet.
LEMMA SortKeeps ==
  ASSUME DeclarationOK(call), LayoutState(call, block, env, memory), sort_storage
  PROVE  block' = "place" /\ LayoutState(call, block', env', memory')
<1> DEFINE s == memory.storage
<1>1. block = "collect" /\ env.field > FieldCount(call)
  BY DEF sort_storage, InLayout, At, FieldCount
<1>2. /\ call \in StructDeclarations
      /\ memory = [storage |-> s, physical |-> memory.physical, current_offset |-> memory.current_offset]
      /\ memory.physical \in Seq(StructElements(call))
      /\ Collecting(call, env, memory)
  BY <1>1 DEF LayoutState
<1>3. /\ s \in Seq(Units(call)) /\ {s[i] : i \in 1 .. Len(s)} = Units(call)
      /\ memory.physical = <<>> /\ memory.current_offset = 0
  <2>1. FieldCount(call) \in Nat
    BY DEF DeclarationOK, FieldCount
  <2>2. env.field - 1 = FieldCount(call)
    BY <1>1, <1>2, <2>1 DEF Collecting
  <2> QED BY <1>2, <2>2 DEF Collecting, Units
<1>4. PICK order \in SetToSeqs(Range(s)) :
        /\ \A i \in 1 .. Len(order) - 1 : order[i].offset <= order[i + 1].offset
        /\ memory' = [memory EXCEPT !.storage = order]
  BY DEF sort_storage
<1>5. block' = "place" /\ env' = [unit |-> 1]
  BY DEF sort_storage, GotoWith
<1> HIDE DEF s
<1>6. Ordered(call, order)
  BY <1>3, <1>4, OrdersAreOrdered
<1>7. memory' = [storage |-> order, physical |-> <<>>, current_offset |-> 0]
  BY <1>2, <1>3, <1>4
<1>8. memory'.storage = order /\ memory'.physical = <<>> /\ memory'.current_offset = 0 /\ env'.unit = 1
  BY <1>5, <1>7
<1>9. Len(order) \in Nat /\ 1 \in 1 .. Len(order) + 1
  BY <1>6, OrderedUnits
<1>10. Clear(order, 1 - 1) /\ EndOf(order, 1 - 1) = 0 /\ Tiled(<<>>, 0) /\ Holds(order, 1 - 1, <<>>)
  BY DEF Clear, EndOf, Tiled, Holds
<1>11. Placing(call, env', memory')
  BY <1>5, <1>6, <1>8, <1>9, <1>10 DEF Placing
<1>12. memory'.physical \in Seq(StructElements(call))
  BY <1>8, EmptySeq
<1>13. memory' = [storage |-> memory'.storage, physical |-> memory'.physical,
                  current_offset |-> memory'.current_offset]
  BY <1>7, <1>8
<1> QED BY <1>2, <1>5, <1>11, <1>12, <1>13, Zenon DEF LayoutState

\* place_storage puts the next unit after padding up to it.
LEMMA PlaceKeeps ==
  ASSUME DeclarationOK(call), call.fn \in Reifications, LayoutState(call, block, env, memory), place_storage
  PROVE  block' = "place" /\ LayoutState(call, block', env', memory')
<1> DEFINE s == memory.storage
           i == env.unit
           p == memory.physical
           from == memory.current_offset
           unit == s[i]
           e == StorageOf(unit)
           padded == p \o Padding(from, unit.offset)
           q == padded \o <<e>>
<1>1. block = "place" /\ i <= Len(s) /\ ~overlaps
  BY DEF place_storage, InLayout, At
<1>2. /\ call \in StructDeclarations
      /\ memory = [storage |-> s, physical |-> p, current_offset |-> from]
      /\ p \in Seq(StructElements(call))
      /\ Placing(call, env, memory)
  BY <1>1 DEF LayoutState
<1>3. /\ Ordered(call, s) /\ env = [unit |-> i] /\ i \in 1 .. Len(s) + 1
      /\ from = EndOf(s, i - 1)
      /\ call.fn = PromotedReification => Clear(s, i - 1)
      /\ ~Clash(call) => Tiled(p, from)
      /\ Holds(s, i - 1, p)
  BY <1>2 DEF Placing
<1>4. /\ memory' = [memory EXCEPT !.physical = p \o Padding(from, unit.offset) \o StorageElement(unit),
                                  !.current_offset = unit.offset + unit.size]
      /\ block' = "place" /\ env' = [unit |-> i + 1]
  BY DEF place_storage, GotoWith
<1>5. StorageElement(unit) = <<e>>
  BY DEF StorageElement, StorageOf
<1>6. memory' = [storage |-> s, physical |-> q, current_offset |-> unit.offset + unit.size]
  <2> HIDE DEF s, p, from, unit
  <2> QED BY <1>2, <1>4, <1>5
<1>7. call.fn = PromotedReification => from <= unit.offset
  <2>1. unit.offset < from => unit.offset < from /\ TRUE
    OBVIOUS
  <2>2. call.fn = PromotedReification => ~(unit.offset < from)
    BY <1>1 DEF overlaps
  <2>3. Len(s) \in Nat /\ i \in 1 .. Len(s) /\ unit.offset \in Nat
    BY <1>1, <1>3, OrderedUnits
  <2>4. from \in Nat
    <3>1. i - 1 # 0 => i - 1 \in 1 .. Len(s)
      BY <2>3
    <3>2. i - 1 # 0 => s[i - 1].offset \in Nat /\ s[i - 1].size \in Nat
      BY <1>3, <3>1, OrderedUnits
    <3> QED BY <1>3, <3>2 DEF EndOf
  <2> QED BY <2>2, <2>3, <2>4
<1>8. /\ Len(s) \in Nat /\ i \in 1 .. Len(s) /\ unit.offset \in Nat /\ unit.size \in Nat
      /\ e \in StructElements(call) /\ from \in Nat
  <2>1. Len(s) \in Nat /\ i \in 1 .. Len(s)
    BY <1>1, <1>3, OrderedUnits
  <2>2. i - 1 # 0 => i - 1 \in 1 .. Len(s)
    BY <2>1
  <2>3. i - 1 # 0 => s[i - 1].offset \in Nat /\ s[i - 1].size \in Nat
    BY <1>3, <2>2, OrderedUnits
  <2>4. from \in Nat
    BY <1>3, <2>3 DEF EndOf
  <2> QED BY <1>3, <2>1, <2>4, OrderedUnits
<1>9. e.offset = unit.offset /\ e.size = unit.size
  BY DEF StorageOf
<1> HIDE DEF s, i, p, from, unit, e
<1>10. ~Clash(call) => from <= unit.offset
  <2> SUFFICES ASSUME ~Clash(call) PROVE from <= unit.offset
    OBVIOUS
  <2>1. Clear(s, Len(s))
    BY <1>3, ClearUnits
  <2>2. i - 1 # 0 => i - 1 \in 1 .. Len(s) /\ i - 1 < i
    BY <1>8
  <2>3. i - 1 # 0 => s[i - 1].offset + s[i - 1].size <= s[i].offset
    BY <1>8, <2>1, <2>2 DEF Clear
  <2> QED BY <1>3, <1>8, <2>3 DEF EndOf, unit
<1>11. /\ padded \in Seq(StructElements(call)) /\ Len(padded) >= Len(p)
       /\ \A k \in 1 .. Len(p) : padded[k] = p[k]
       /\ ~Clash(call) => Tiled(padded, unit.offset)
  <2>1. /\ padded \in Seq(StructElements(call)) /\ Len(padded) >= Len(p)
        /\ \A k \in 1 .. Len(p) : padded[k] = p[k]
        /\ Tiled(p, from) /\ from <= unit.offset => Tiled(padded, unit.offset)
    <3>1. \A x \in Seq(StructElements(call)), f, t \in Nat :
            /\ x \o Padding(f, t) \in Seq(StructElements(call))
            /\ Len(x \o Padding(f, t)) >= Len(x)
            /\ \A k \in 1 .. Len(x) : (x \o Padding(f, t))[k] = x[k]
            /\ Tiled(x, f) /\ f <= t => Tiled(x \o Padding(f, t), t)
      BY PaddingTiles
    <3> QED BY <1>2, <1>8, <3>1, Zenon
  <2> HIDE DEF padded
  <2> QED BY <1>3, <1>10, <2>1, Zenon
<1> HIDE DEF padded
<1>12. /\ q \in Seq(StructElements(call))
       /\ Len(q) = Len(padded) + 1 /\ q[Len(padded) + 1] = e
       /\ \A k \in 1 .. Len(padded) : q[k] = padded[k]
       /\ ~Clash(call) => Tiled(q, unit.offset + unit.size)
  <2>1. /\ <<e>> \in Seq(StructElements(call)) /\ Len(<<e>>) = 1 /\ <<e>>[1] = e /\ Len(padded) \in Nat
    BY <1>8, <1>11, LenProperties
  <2>2. /\ q \in Seq(StructElements(call)) /\ Len(q) = Len(padded) + 1
        /\ \A k \in 1 .. Len(padded) + 1 : q[k] = IF k <= Len(padded) THEN padded[k] ELSE <<e>>[k - Len(padded)]
    BY <1>11, <2>1, ConcatProperties
  <2>3. ~Clash(call) => Tiled(q, e.offset + e.size)
    BY <1>8, <1>9, <1>11, TileMore
  <2>4. (\A k \in 1 .. Len(padded) : q[k] = padded[k]) /\ q[Len(padded) + 1] = e
    BY <2>1, <2>2
  <2> HIDE DEF q
  <2> QED BY <1>9, <2>2, <2>3, <2>4, Zenon
<1> HIDE DEF q
<1>13. Holds(s, i, q)
  <2>1. Len(p) \in Nat /\ Len(padded) \in Nat
    BY <1>2, <1>11, LenProperties
  <2>2. SUFFICES ASSUME NEW j \in 1 .. i PROVE \E k \in 1 .. Len(q) : q[k] = StorageOf(s[j])
    BY DEF Holds
  <2>3. CASE j = i
    <3>1. Len(padded) + 1 \in 1 .. Len(q) /\ q[Len(padded) + 1] = StorageOf(s[j])
      BY <1>12, <2>1, <2>3 DEF e, unit
    <3> QED BY <3>1, Zenon
  <2>4. CASE j # i
    <3>1. j \in 1 .. i - 1
      BY <1>8, <2>4
    <3>2. PICK k \in 1 .. Len(p) : p[k] = StorageOf(s[j])
      BY <1>3, <3>1 DEF Holds
    <3>3. k \in 1 .. Len(q) /\ k \in 1 .. Len(padded)
      BY <1>11, <1>12, <2>1
    <3>4. q[k] = StorageOf(s[j])
      BY <1>11, <1>12, <3>2, <3>3
    <3> QED BY <3>3, <3>4, Zenon
  <2> QED BY <2>3, <2>4
<1>14. call.fn = PromotedReification => Clear(s, i)
  <2> SUFFICES ASSUME call.fn = PromotedReification PROVE Clear(s, i)
    OBVIOUS
  <2>1. EndOf(s, i - 1) <= s[i].offset
    BY <1>3, <1>7 DEF unit
  <2> QED BY <1>3, <1>8, <2>1, ClearMore
<1>15. /\ memory'.storage = s /\ memory'.physical = q /\ memory'.current_offset = unit.offset + unit.size
       /\ env'.unit = i + 1 /\ env' = [unit |-> i + 1]
  <2>1. /\ memory'.storage = s /\ memory'.physical = q /\ memory'.current_offset = unit.offset + unit.size
    BY ONLY <1>6
  <2>2. env' = [unit |-> i + 1]
    BY <1>4, Zenon
  <2>3. env'.unit = i + 1
    BY ONLY <2>2
  <2> QED BY <2>1, <2>2, <2>3, Zenon
<1>16. i + 1 \in 1 .. Len(s) + 1 /\ (i + 1) - 1 = i /\ EndOf(s, i) = unit.offset + unit.size
  BY <1>8 DEF EndOf, unit
<1>17. Placing(call, env', memory')
  <2>1. env' = [unit |-> env'.unit] /\ env'.unit \in 1 .. Len(memory'.storage) + 1 /\ env'.unit - 1 = i
    BY <1>15, <1>16
  <2> QED BY <1>3, <1>12, <1>13, <1>14, <1>15, <1>16, <2>1, Zenon DEF Placing
<1>18. memory' = [storage |-> memory'.storage, physical |-> memory'.physical,
                  current_offset |-> memory'.current_offset]
  BY <1>6, <1>15
<1> QED BY <1>2, <1>4, <1>12, <1>15, <1>17, <1>18, Zenon DEF LayoutState

\* refuse_overlap is right to: the unit begins before the end of one that comes before it.
LEMMA RefuseOverlapKeeps ==
  ASSUME DeclarationOK(call), LayoutState(call, block, env, memory), refuse_overlap
  PROVE  block' = "returned" /\ LayoutState(call, block', env', memory')
<1> DEFINE s == memory.storage
           i == env.unit
<1>1. block = "place" /\ i <= Len(s) /\ overlaps /\ block' = "returned" /\ env' = [result |-> "ValueError"]
      /\ memory' = memory
  BY DEF refuse_overlap, InLayout, At, Ret, GotoWith
<1>2. LayoutState(call, "place", env, memory)
  BY <1>1
<1>3. Placing(call, env, memory)
  BY <1>2 DEF LayoutState
<1>4. /\ Ordered(call, s) /\ i \in 1 .. Len(s) + 1
      /\ memory.current_offset = EndOf(s, i - 1)
  BY <1>3 DEF Placing
<1>5. call.fn = PromotedReification /\ s[i].offset < EndOf(s, i - 1)
  BY <1>1, <1>4 DEF overlaps
<1>6. Len(s) \in Nat /\ i \in 1 .. Len(s) /\ s[i].offset \in Nat
  BY <1>1, <1>4, OrderedUnits
<1> HIDE DEF s, i
<1>7. Clash(call)
  <2> SUFFICES ASSUME ~Clash(call) PROVE FALSE
    OBVIOUS
  <2>1. Clear(s, Len(s))
    BY <1>4, ClearUnits
  <2>2. i - 1 # 0
    BY <1>5, <1>6 DEF EndOf
  <2>3. i - 1 \in 1 .. Len(s) /\ i - 1 < i
    BY <1>6, <2>2
  <2>4. s[i - 1].offset + s[i - 1].size <= s[i].offset
    BY <1>6, <2>1, <2>3 DEF Clear
  <2>5. s[i - 1].offset \in Nat /\ s[i - 1].size \in Nat
    BY <1>4, <2>3, OrderedUnits
  <2> QED BY <1>5, <1>6, <2>2, <2>4, <2>5 DEF EndOf
<1>8. Reified(call, env', memory')
  <2>1. env'.result = "ValueError"
    BY <1>1
  <2> QED BY <1>5, <1>7, <2>1 DEF Reified
<1>9. /\ call \in StructDeclarations
      /\ memory' = [storage |-> memory'.storage, physical |-> memory'.physical,
                    current_offset |-> memory'.current_offset]
      /\ memory'.physical \in Seq(StructElements(call))
  BY <1>1, <1>2 DEF LayoutState
<1> QED BY <1>1, <1>8, <1>9, Zenon DEF LayoutState

\* finish_layout pads to the size; the promoted version gets there only without an overlap.
LEMMA FinishKeeps ==
  ASSUME DeclarationOK(call), call.fn \in Reifications, LayoutState(call, block, env, memory), finish_layout
  PROVE  block' = "returned" /\ LayoutState(call, block', env', memory')
<1> DEFINE s == memory.storage
           i == env.unit
           p == memory.physical
           from == memory.current_offset
           q == p \o Padding(from, SizeOf(call))
<1>1. block = "place" /\ i > Len(s)
  BY DEF finish_layout, InLayout, At
<1>2. LayoutState(call, "place", env, memory)
  BY <1>1
<1>3. /\ call \in StructDeclarations
      /\ memory = [storage |-> s, physical |-> p, current_offset |-> from]
      /\ p \in Seq(StructElements(call))
      /\ Placing(call, env, memory)
  BY <1>2 DEF LayoutState
<1>4. /\ Ordered(call, s) /\ i \in 1 .. Len(s) + 1
      /\ from = EndOf(s, i - 1)
      /\ call.fn = PromotedReification => Clear(s, i - 1)
      /\ ~Clash(call) => Tiled(p, from)
      /\ Holds(s, i - 1, p)
  BY <1>3 DEF Placing
<1>5. block' = "returned" /\ env' = [result |-> "handle"] /\ memory' = [memory EXCEPT !.physical = q]
  BY DEF finish_layout, Ret, GotoWith
<1>6. Len(s) \in Nat /\ i - 1 = Len(s)
  BY <1>1, <1>4, OrderedUnits
<1>7. SizeOf(call) \in Nat
  BY FieldsWithin
<1> HIDE DEF s, i, p, from
<1>8. from \in Nat /\ from <= SizeOf(call)
  <2>1. CASE Len(s) = 0
    BY <1>4, <1>6, <1>7, <2>1 DEF EndOf
  <2>2. CASE Len(s) # 0
    <3>1. Len(s) \in 1 .. Len(s)
      BY <1>6, <2>2
    <3>2. s[Len(s)].offset \in Nat /\ s[Len(s)].size \in Nat /\ s[Len(s)].offset + s[Len(s)].size <= SizeOf(call)
      BY <1>4, <3>1, OrderedUnits
    <3> QED BY <1>4, <1>6, <2>2, <3>2 DEF EndOf
  <2> QED BY <2>1, <2>2
<1>9. /\ q \in Seq(StructElements(call)) /\ Len(q) >= Len(p)
      /\ \A k \in 1 .. Len(p) : q[k] = p[k]
      /\ ~Clash(call) => Tiled(q, SizeOf(call))
  <2>1. /\ q \in Seq(StructElements(call)) /\ Len(q) >= Len(p)
        /\ \A k \in 1 .. Len(p) : q[k] = p[k]
        /\ Tiled(p, from) /\ from <= SizeOf(call) => Tiled(q, SizeOf(call))
    <3>1. \A x \in Seq(StructElements(call)), f, t \in Nat :
            /\ x \o Padding(f, t) \in Seq(StructElements(call))
            /\ Len(x \o Padding(f, t)) >= Len(x)
            /\ \A k \in 1 .. Len(x) : (x \o Padding(f, t))[k] = x[k]
            /\ Tiled(x, f) /\ f <= t => Tiled(x \o Padding(f, t), t)
      BY PaddingTiles
    <3> QED BY <1>3, <1>7, <1>8, <3>1, Zenon
  <2> HIDE DEF q
  <2> QED BY <1>4, <1>8, <2>1, Zenon
<1>10. memory' = [storage |-> s, physical |-> q, current_offset |-> from]
  <2> HIDE DEF q
  <2> QED BY <1>3, <1>5
<1> HIDE DEF q
<1>11. memory'.physical = q /\ memory'.storage = s /\ memory'.current_offset = from
  BY ONLY <1>10
<1>12. ~(Clash(call) /\ call.fn = PromotedReification)
  BY <1>4, <1>6, ClearUnits
<1>13. \A k \in 1 .. FieldCount(call) : \E j \in 1 .. Len(q) : q[j] = StorageOf(UnitOf(call, k))
  <2> SUFFICES ASSUME NEW k \in 1 .. FieldCount(call)
               PROVE  \E j \in 1 .. Len(q) : q[j] = StorageOf(UnitOf(call, k))
    OBVIOUS
  <2>1. UnitOf(call, k) \in Units(call)
    BY DEF Units, UnitsUpTo
  <2>2. PICK l \in 1 .. Len(s) : s[l] = UnitOf(call, k)
    BY <1>4, <2>1 DEF Ordered
  <2>3. PICK j \in 1 .. Len(p) : p[j] = StorageOf(s[l])
    BY <1>4, <1>6, <2>2 DEF Holds
  <2>4. Len(p) \in Nat /\ Len(q) \in Nat
    BY <1>3, <1>9, LenProperties
  <2>5. j \in 1 .. Len(q) /\ q[j] = p[j]
    BY <1>9, <2>4
  <2> QED BY <2>2, <2>3, <2>5, Zenon
<1>14. Reified(call, env', memory')
  <2>1. env'.result = "handle"
    BY <1>5
  <2> QED BY <1>9, <1>11, <1>12, <1>13, <2>1 DEF Reified
<1>15. memory' = [storage |-> memory'.storage, physical |-> memory'.physical,
                  current_offset |-> memory'.current_offset]
  BY <1>10, <1>11
<1> QED BY <1>3, <1>5, <1>9, <1>11, <1>14, <1>15, Zenon DEF LayoutState

\* Every step keeps it.
LEMMA LayoutKeeps == LayoutInv /\ LayoutNext => LayoutInv'
<1> SUFFICES ASSUME LayoutInv, LayoutNext PROVE LayoutInv'
  OBVIOUS
<1>1. call' = call
  BY DEF LayoutNext, collect_field, sort_storage, place_storage, refuse_overlap, finish_layout, InLayout, At
<1>2. call.fn \in Reifications /\ LayoutState(call, block, env, memory)
  BY DEF LayoutInv
<1>3. DeclarationOK(call)
  BY <1>2, DeclarationsOK DEF LayoutState
<1>4. block' \in {"collect", "place", "returned"} /\ LayoutState(call, block', env', memory')
  <2>1. CASE collect_field
    BY <1>2, <1>3, <2>1, CollectKeeps
  <2>2. CASE sort_storage
    BY <1>2, <1>3, <2>2, SortKeeps
  <2>3. CASE place_storage
    BY <1>2, <1>3, <2>3, PlaceKeeps
  <2>4. CASE refuse_overlap
    BY <1>2, <1>3, <2>4, RefuseOverlapKeeps
  <2>5. CASE finish_layout
    BY <1>2, <1>3, <2>5, FinishKeeps
  <2> QED BY <2>1, <2>2, <2>3, <2>4, <2>5 DEF LayoutNext
<1> QED BY <1>1, <1>2, <1>4 DEF LayoutInv

\* What the invariant says of the kinds.
LEMMA LayoutKinds == LayoutInv => LayoutTypeOK
<1> SUFFICES ASSUME LayoutInv
             PROVE  \A i \in DOMAIN memory.physical : memory.physical[i].kind \in {"storage", "padding"}
  BY DEF LayoutInv, LayoutTypeOK
<1>1. memory.physical \in Seq(StructElements(call))
  BY DEF LayoutInv, LayoutState
<1>2. DOMAIN memory.physical = 1 .. Len(memory.physical)
  BY <1>1, LenProperties
<1>3. \A i \in DOMAIN memory.physical : memory.physical[i] \in StructElements(call)
  BY <1>1, <1>2, ElementOfSeq
<1>4. \A e \in StructElements(call) : e.kind \in {"storage", "padding"}
  BY DEF StructElements
<1> QED BY <1>3, <1>4

\* A reification that the invariant describes has returned what LayoutIsLlvmLayout asks.
LEMMA LayoutAgrees == LayoutInv => LayoutIsLlvmLayout
<1> SUFFICES ASSUME LayoutInv, Returned PROVE LayoutIsLlvmLayout
  BY DEF LayoutIsLlvmLayout
<1>1. /\ call \in StructDeclarations /\ memory.physical \in Seq(StructElements(call))
      /\ Reified(call, env, memory)
  <2>1. LayoutState(call, "returned", env, memory)
    BY DEF LayoutInv, Returned
  <2> QED BY <2>1 DEF LayoutState
<1>2. DeclarationOK(call)
  BY <1>1, DeclarationsOK
<1>3. HasOverlap <=> Clash(call)
  BY DEF HasOverlap, Clash, FieldCount
<1>4. env.result = (IF HasOverlap /\ call.fn = PromotedReification THEN "ValueError" ELSE "handle")
  BY <1>1, <1>3 DEF Reified
<1>5. ASSUME ~HasOverlap
      PROVE  /\ \A i \in DOMAIN memory.physical : LlvmOffset[i] = memory.physical[i].offset
             /\ LlvmSize = SizeOf(call)
             /\ \A k \in DOMAIN call.fields :
                  LET d == Descriptors(call)[k]
                  IN  \E i \in DOMAIN memory.physical :
                        /\ memory.physical[i].kind = "storage"
                        /\ memory.physical[i].offset = d.offset /\ memory.physical[i].size = d.size
  <2>1. /\ Tiled(memory.physical, SizeOf(call))
        /\ \A k \in 1 .. FieldCount(call) :
             \E i \in 1 .. Len(memory.physical) : memory.physical[i] = StorageOf(UnitOf(call, k))
    BY <1>1, <1>3, <1>5 DEF Reified
  <2>2. /\ \A i \in DOMAIN memory.physical : LlvmOffset[i] = memory.physical[i].offset
        /\ LlvmSize = SizeOf(call)
    BY <1>1, <1>2, <2>1, TiledIsLlvm
  <2>3. DOMAIN memory.physical = 1 .. Len(memory.physical) /\ DOMAIN call.fields = 1 .. FieldCount(call)
    BY <1>1, <1>2, LenProperties DEF DeclarationOK, FieldCount
  <2>4. ASSUME NEW k \in DOMAIN call.fields
        PROVE  LET d == Descriptors(call)[k]
               IN  \E i \in DOMAIN memory.physical :
                     /\ memory.physical[i].kind = "storage"
                     /\ memory.physical[i].offset = d.offset /\ memory.physical[i].size = d.size
    <3> DEFINE d == Descriptors(call)[k]
               u == UnitOf(call, k)
    <3>1. PICK i \in DOMAIN memory.physical : memory.physical[i] = StorageOf(u)
      BY <2>1, <2>3
    <3>2. u = [offset |-> d.offset, size |-> d.size, align |-> d.align,
               key |-> IF d.bits = 0 THEN k ELSE 0]
      BY <1>2, <2>3, UnitFacts
    <3> HIDE DEF u, d
    <3>3. u.offset = d.offset /\ u.size = d.size
      BY ONLY <3>2
    <3>4. StorageOf(u).kind = "storage" /\ StorageOf(u).offset = u.offset /\ StorageOf(u).size = u.size
      BY DEF StorageOf
    <3>5. \E j \in DOMAIN memory.physical :
            /\ memory.physical[j].kind = "storage"
            /\ memory.physical[j].offset = d.offset /\ memory.physical[j].size = d.size
      BY <3>1, <3>3, <3>4, Zenon
    <3> QED BY <3>5 DEF d
  <2> QED BY <2>2, <2>4, Zenon
<1> QED BY <1>4, <1>5, Zenon DEF LayoutIsLlvmLayout

LayoutSpec == LayoutInit /\ [][LayoutNext]_vars

\* The invariant holds throughout a reification, whatever the declaration.
LEMMA LayoutInvariant == LayoutSpec => []LayoutInv
<1>1. LayoutInv /\ UNCHANGED vars => LayoutInv'
  BY DEF LayoutInv, vars
<1> QED BY <1>1, LayoutInitial, LayoutKeeps, PTL DEF LayoutSpec

\* For a structure of any number of fields, of any alignments, array lengths and bit widths: the
\* handle is refused exactly when units overlap, and otherwise LLVM lays the elements out where
\* ctypes has the fields (StructHandle.from_ctypes, and the lab's where no units overlap).
THEOREM LayoutCorrect == LayoutSpec => []LayoutIsLlvmLayout
BY LayoutAgrees, LayoutInvariant, PTL

===============================================================================
