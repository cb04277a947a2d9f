---------------------------- MODULE BlockProtocol ----------------------------
(***************************************************************************)
(* The helpers that emit merge blocks, one Python call at a time: a Join   *)
(* gives a block parameters and takes incoming values before and after its *)
(* phis exist, a ParamLoop is a Join on its head, and a SharedExit keeps   *)
(* its values until it is finished.  memory is the function being built:   *)
(* who branches to the merge block, and the phis put there.  Nothing keeps *)
(* a caller from entering a join twice or from remembering an edge after   *)
(* the exit is finished, and the calls come in any order here.             *)
(***************************************************************************)
EXTENDS CompiledFunction, Sequences, FiniteSets

CONSTANTS
  Preds,      \* the blocks that may branch to the merge block
  MaxArity,   \* bound on the number of parameters
  MaxEntries  \* bound on the times one join is entered

ASSUME MaxEntriesAssumption == MaxEntries \in Nat \ {0}

Builders == {"join", "loop", "shared_exit"}

\* A loop keeps the block its builder stood in when it was made.
ProtocolInit ==
  /\ call \in [fn : {"join", "shared_exit"}, arity : 0 .. MaxArity]
                \cup [fn : {"loop"}, arity : 0 .. MaxArity, entry : Preds]
  /\ block = "returned"
  /\ env = [pending |-> <<>>, error |-> "none"]
  /\ memory = [branches |-> {}, phis |-> <<>>]

\* The caller goes on only while nothing was raised.
Building(fns) == call.fn \in fns /\ env.error = "none" /\ UNCHANGED <<call, block>>
raise(error) == env' = [env EXCEPT !.error = error]

\* The function once pred ends in a branch to the merge block: kept with it are the method that
\* emitted the branch and how many times phis had been put into the merge block by then.
Branches(pred, via) ==
  [memory EXCEPT !.branches = @ \cup {[block |-> pred, via |-> via, entries |-> Len(memory.phis)]}]

\* The caller ends each block once.
Unterminated == Preds \ {b.block : b \in memory.branches}

\* What the caller passes from pred for n parameters, and the edge that says under is its block.
Values(pred, n) == [k \in 1 .. n |-> <<pred, k>>]
Edge(under, pred, n) == [block |-> under, values |-> Values(pred, n)]

\* New phis with all that waits: one incoming list for each parameter.
Delivered ==
  [k \in 1 .. call.arity |->
     [i \in DOMAIN env.pending |->
        [block |-> env.pending[i].block, value |-> env.pending[i].values[k]]]]
NewPhis == [memory EXCEPT !.phis = Append(@, Delivered)]

(***************************************************************************)
(* Join and ParamLoop                                                      *)
(***************************************************************************)
with_incoming(phis, edge) ==
  [k \in DOMAIN phis |-> Append(phis[k], [block |-> edge.block, value |-> edge.values[k]])]

\* The join knows the phis it created last.
to_last_phis(phis, edge) == [phis EXCEPT ![Len(phis)] = with_incoming(@, edge)]

\* add_incoming on the function f: kept until the phis exist.  A join without parameters has no
\* phis even once it is entered, and keeps its edges for ever.
add_incoming_fault(f, edge, n) ==
  IF n # call.arity THEN memory' = f /\ raise("ValueError")
  ELSE memory' = f /\ env' = [env EXCEPT !.pending = Append(@, edge)]
add_incoming(f, edge, n) ==
  IF n # call.arity THEN memory' = f /\ raise("ValueError")
  ELSE IF f.phis # <<>> /\ n > 0
       THEN memory' = [f EXCEPT !.phis = to_last_phis(@, edge)] /\ UNCHANGED env
       ELSE memory' = f /\ env' = [env EXCEPT !.pending = Append(@, edge)]

\* branch_from_here, a loop's continue_from_here too, emits the branch first, and then may refuse
\* the values.
branch_from_here(pred, n) ==
  /\ Building({"join", "loop"}) /\ pred \in Unterminated
  /\ add_incoming(Branches(pred, "branch_from_here"), Edge(pred, pred, n), n)

\* ParamLoop.begin gives the values first, as the entry block's, and branches only when they were
\* taken, from the block the builder stands in by then.
loop_begin(pred, n) ==
  /\ Building({"loop"}) /\ pred \in Unterminated
  /\ add_incoming(IF n = call.arity THEN Branches(pred, "begin") ELSE memory,
                  Edge(call.entry, pred, n), n)

\* __enter__ creates phis and delivers the edges kept, each time it is called.
join_enter ==
  /\ Building({"join", "loop"}) /\ Len(memory.phis) < MaxEntries
  /\ memory' = NewPhis
  /\ UNCHANGED env

(***************************************************************************)
(* SharedExit                                                              *)
(***************************************************************************)
\* remember checks the values before it changes anything, but not whether the exit is finished.
exit_remember_fault(pred, n) ==
  /\ Building({"shared_exit"}) /\ pred \in Unterminated
  /\ memory' = Branches(pred, "remember")
  /\ IF n # call.arity THEN raise("ValueError")
     ELSE env' = [env EXCEPT !.pending = Append(@, Edge(pred, pred, n))]
exit_remember(pred, n) ==
  /\ Building({"shared_exit"}) /\ pred \in Unterminated
  /\ IF n # call.arity THEN raise("ValueError") /\ UNCHANGED memory
     ELSE /\ env' = [env EXCEPT !.pending = Append(@, Edge(pred, pred, n))]
          /\ memory' = Branches(pred, "remember")

exit_finish ==
  /\ Building({"shared_exit"})
  /\ IF memory.phis # <<>> \/ env.pending = <<>> THEN raise("RuntimeError") /\ UNCHANGED memory
     ELSE memory' = NewPhis /\ UNCHANGED env

ProtocolNext ==
  \/ join_enter
  \/ exit_finish
  \/ \E pred \in Preds, n \in 0 .. MaxArity :
       branch_from_here(pred, n) \/ loop_begin(pred, n) \/ exit_remember(pred, n)

ProtocolSpec == ProtocolInit /\ [][ProtocolNext]_vars

(***************************************************************************)
(* Properties                                                              *)
(***************************************************************************)
\* Every part of the function under construction has its type.
ProtocolTypeOK ==
  call.fn \in Builders =>
    /\ memory.branches \subseteq
         [block : Preds, via : {"branch_from_here", "begin", "remember"}, entries : 0 .. MaxEntries]
    /\ env.error \in {"none", "ValueError", "RuntimeError"}
    /\ Len(memory.phis) \in 0 .. MaxEntries
    /\ \A e \in 1 .. Len(memory.phis) : Len(memory.phis[e]) = call.arity

\* The branches whose values belong in the phis created e-th: those that came before there were
\* phis, and those that came while these were the last; a finished exit takes no more.
Reaching(e) ==
  {b \in memory.branches : b.entries = 0 \/ (b.entries = e /\ b.via # "remember")}
Under(b) == IF b.via = "begin" THEN call.entry ELSE b.block

\* In whatever order a builder's methods are called, as long as none was refused: each phi lists
\* exactly the values of the branches that reach it, each once and under the block the method
\* takes for it.  A branch remembered after finish reaches none; a join entered again delivers
\* anew what came before its first phis, and what came between only to the phis of that time.
EdgesReachTheirPhis ==
  call.fn \in Builders /\ env.error = "none" =>
    \A e \in 1 .. Len(memory.phis), k \in 1 .. call.arity :
      LET incoming == memory.phis[e][k] IN
      /\ Len(incoming) = Cardinality(Reaching(e))
      /\ {incoming[i] : i \in DOMAIN incoming} =
           {[block |-> Under(b), value |-> <<b.block, k>>] : b \in Reaching(e)}

\* A caller that enters or finishes the merge block once, begins a loop where it was made and
\* remembers nothing after finish gets well-formed phis: each has exactly one incoming value for
\* every block that branches there, the one that block passed, whether the edge came before the
\* phis existed or after.
CalledAsMeant ==
  /\ Len(memory.phis) = 1
  /\ \A b \in memory.branches : Under(b) = b.block /\ (b.via = "remember" => b.entries = 0)
WellFormedPhis ==
  call.fn \in Builders /\ env.error = "none" /\ CalledAsMeant =>
    \A k \in 1 .. call.arity :
      LET incoming == memory.phis[1][k]
          preds == {b.block : b \in memory.branches}
      IN  /\ Len(incoming) = Cardinality(preds)
          /\ {incoming[i].block : i \in DOMAIN incoming} = preds
          /\ \A i \in DOMAIN incoming : incoming[i].value = <<incoming[i].block, k>>

\* In any order of calls an edge reaches the phis it should and no others; called as they are meant
\* to be, the builders leave no predecessor out.
PhisMatchPredecessors == EdgesReachTheirPhis /\ WellFormedPhis

\* A call of remember, finish or a loop's begin that is refused leaves the function as it was.
\* branch_from_here does not promise that: its branch is emitted before the refusal.
RefusalEmitsNothing ==
  [][/\ \/ exit_finish
        \/ \E pred \in Preds, n \in 0 .. MaxArity : loop_begin(pred, n) \/ exit_remember(pred, n)
     /\ env'.error # env.error
     => memory' = memory]_vars
===============================================================================
