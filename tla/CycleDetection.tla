---------------------------- MODULE CycleDetection ----------------------------
(***************************************************************************)
(* detectCycles of the parser: a depth-first search that reports the paths *)
(* from a step back to itself, for any definition.  Here it is asked about *)
(* the one validateAndSortDAG has just accepted or refused.                *)
(*                                                                         *)
(* The recursion of dfs is the stack path: frame i is the call for node    *)
(* path[i] and todo[i] the part of its adjacency list it has not visited.  *)
(***************************************************************************)
EXTENDS DefinitionParser

VARIABLES
  color,    \* WHITE, GRAY or BLACK, for each key of the adjacency map
  path,     \* the nodes of the calls in progress
  todo,     \* for each of them, what is left of its adjacency list
  cycles,   \* the paths reported
  done

searchVars == <<color, path, todo, cycles, done>>

\* The keys of the adjacency map.
Nodes == StepIds(def) \cup {DepAt(def, e) : e \in Entries(def)}

\* The Map got them in the order in which they are first mentioned: the
\* dependencies of each step and then the step.
Mentions(n) ==
  {e \in UNION {{i} \X (1..(Len(def[i].depends_on) + 1)) : i \in DOMAIN def} :
     Append(def[e[1]].depends_on, def[e[1]].id)[e[2]] = n}

MentionedBefore(m, n) == Before(Earliest(Mentions(m)), Earliest(Mentions(n)))

SearchInit ==
  /\ color = [n \in Nodes |-> "WHITE"]
  /\ path = <<>> /\ todo = <<>>
  /\ cycles = <<>> /\ done = FALSE

\* dfs(n, path): the node turns GRAY and joins the path.
Enter(n, rest) ==
  /\ color' = [color EXCEPT ![n] = "GRAY"]
  /\ path' = Append(path, n)
  /\ todo' = Append(rest, Adjacency(n))
  /\ UNCHANGED <<cycles, done>>

\* The outer loop starts at the first node that is still WHITE.
StartSearch ==
  /\ path = <<>> /\ ~done
  /\ \E n \in Nodes :
       /\ color[n] = "WHITE"
       /\ \A m \in Nodes : color[m] = "WHITE" => m = n \/ MentionedBefore(n, m)
       /\ Enter(n, <<>>)

Top == Len(path)
NextEntry == Earliest(todo[Top])
NextChild == StepAt(def, NextEntry)
RestOfTop == [todo EXCEPT ![Top] = @ \ {NextEntry}]

\* Mutant: the whole path is reported.
ReportPath ==
  /\ path # <<>> /\ todo[Top] # {} /\ color[NextChild] = "GRAY"
  /\ cycles' = Append(cycles, Append(path, NextChild))
  /\ todo' = RestOfTop
  /\ UNCHANGED <<color, path, done>>

\* A child on the path closes a cycle ...
ReportCycle ==
  /\ path # <<>> /\ todo[Top] # {} /\ color[NextChild] = "GRAY"
  /\ LET start == CHOOSE i \in DOMAIN path :
                    path[i] = NextChild /\ \A j \in 1..(i - 1) : path[j] # NextChild
     IN  cycles' = Append(cycles, Append(SubSeq(path, start, Top), NextChild))
  /\ todo' = RestOfTop
  /\ UNCHANGED <<color, path, done>>

\* ... a new one is searched ...
VisitChild ==
  /\ path # <<>> /\ todo[Top] # {} /\ color[NextChild] = "WHITE"
  /\ Enter(NextChild, RestOfTop)

\* ... and one whose search has ended is passed over.
SkipChild ==
  /\ path # <<>> /\ todo[Top] # {} /\ color[NextChild] = "BLACK"
  /\ todo' = RestOfTop
  /\ UNCHANGED <<color, path, cycles, done>>

Leave ==
  /\ path # <<>> /\ todo[Top] = {}
  /\ color' = [color EXCEPT ![path[Top]] = "BLACK"]
  /\ path' = Front(path) /\ todo' = Front(todo)
  /\ UNCHANGED <<cycles, done>>

EndSearch ==
  /\ path = <<>> /\ ~done /\ \A n \in Nodes : color[n] # "WHITE"
  /\ done' = TRUE
  /\ UNCHANGED <<color, path, todo, cycles>>

Search == StartSearch \/ ReportCycle \/ VisitChild \/ SkipChild \/ Leave \/ EndSearch

-------------------------------------------------------------------------------

\* Each report is a cycle of the definition: every step of it waits for the one
\* before, and none occurs twice but the first, which is also the last.  There
\* is one exactly when some steps wait for each other, and then
\* validateAndSortDAG has refused the definition: the two never disagree.
ReportsAreTheCycles ==
  /\ \A k \in DOMAIN cycles :
       LET c == cycles[k] IN
       /\ Len(c) > 1 /\ c[1] = c[Len(c)]
       /\ \A i \in 1..(Len(c) - 1) : <<c[i], c[i + 1]>> \in Precedes(def)
       /\ \A i, j \in 1..(Len(c) - 1) : c[i] = c[j] => i = j
  /\ done =>
       /\ cycles # <<>> <=> HasDeadlock(def, Nodes)
       /\ cycles # <<>> => ~result.ok
       /\ cycles = <<>> => result # Failure({Error(NoStep, "cycle")})

=============================================================================
