---------------------------- MODULE DemangleJobs ----------------------------
(***************************************************************************)
(* What the memory of the demangler promises (Demangling/Demangler.h and   *)
(* Demangler.cpp): every job has a stack of nodes of its own, the job it   *)
(* interrupted finds its own again as it left it, and a node or a text     *)
(* that one of them builds is changed by nothing else until the demangler  *)
(* is cleared.                                                             *)
(***************************************************************************)
EXTENDS SequencesExt, Naturals

CONSTANTS
    Nodes,      \* the names of nodes
    Texts,      \* the names of character vectors
    Values,     \* what there is to put in a list
    MaxString,  \* bound: characters appended at once
    None        \* no node

Strings == UNION {[1..n -> Values] : n \in 1..MaxString}

VARIABLES
    stack,      \* the nodes of the running job
    jobs,       \* those of the jobs it interrupted, the last one last
    node,       \* the children of each node, or None
    text        \* the characters of each text

vars == <<stack, jobs, node, text>>

Init ==
    /\ stack = << >>
    /\ jobs = << >>
    /\ node = [n \in Nodes |-> None]
    /\ text = [t \in Texts |-> << >>]

Begin ==
    /\ jobs' = Append(jobs, stack)
    /\ stack' = << >>
    /\ UNCHANGED <<node, text>>

End ==
    /\ jobs # << >>
    /\ stack' = Last(jobs)
    /\ jobs' = Front(jobs)
    /\ UNCHANGED <<node, text>>

Push(x) ==
    /\ stack' = Append(stack, x)
    /\ UNCHANGED <<jobs, node, text>>

Pop ==
    /\ stack # << >>
    /\ stack' = Front(stack)
    /\ UNCHANGED <<jobs, node, text>>

CreateNode(n) ==
    /\ node[n] = None
    /\ node' = [node EXCEPT ![n] = << >>]
    /\ UNCHANGED <<stack, jobs, text>>

\* The node gets another list of children.
SetChildren(n, kids) ==
    /\ node[n] # None
    /\ node' = [node EXCEPT ![n] = kids]
    /\ UNCHANGED <<stack, jobs, text>>

AddChild(n, x) ==
    /\ node[n] # None
    /\ SetChildren(n, Append(node[n], x))

RemoveChildAt(n, i) == SetChildren(n, RemoveAt(node[n], i))

ReverseChildren(n, i) ==
    SetChildren(n, SubSeq(node[n], 1, i - 1)
                     \o Reverse(SubSeq(node[n], i, Len(node[n]))))

AppendText(t, xs) ==
    /\ text' = [text EXCEPT ![t] = @ \o xs]
    /\ UNCHANGED <<stack, jobs, node>>

Clear ==
    /\ jobs = << >>
    /\ stack' = << >>
    /\ node' = [n \in Nodes |-> None]
    /\ text' = [t \in Texts |-> << >>]
    /\ UNCHANGED jobs

Next ==
    \/ Begin \/ End \/ Clear \/ Pop
    \/ \E x \in Values : Push(x)
    \/ \E n \in Nodes :
         \/ CreateNode(n)
         \/ \E x \in Values : AddChild(n, x)
         \/ node[n] # None /\ \E i \in 1..Len(node[n]) :
              RemoveChildAt(n, i) \/ ReverseChildren(n, i)
    \/ \E t \in Texts, xs \in Strings : AppendText(t, xs)

Spec == Init /\ [][Next]_vars
=============================================================================
