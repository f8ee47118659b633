-------------------------- MODULE OptimisticAppend --------------------------
(***************************************************************************)
(* What the extension promises writers of a Delta table, without the how:  *)
(* a client reads one version, stages files, and its files become part of  *)
(* the table all at once, on top of the very version it read, or never.    *)
(***************************************************************************)
EXTENDS Naturals, Sequences

CONSTANTS Client, File, Nobody

VARIABLES
    table,   \* the versions of the table: who made each and what it added
    read,    \* the version a client read, 0 before it reads
    staged,  \* the files a client wants to add
    over     \* the clients that committed or gave up

absVars == <<table, read, staged, over>>

AbsInit ==
    /\ table = <<[by |-> Nobody, adds |-> {}]>>
    /\ read = [c \in Client |-> 0]
    /\ staged = [c \in Client |-> {}]
    /\ over = {}

\* The first read decides which version the client works on.
Read(c) ==
    /\ c \notin over
    /\ read[c] = 0
    /\ \E n \in 1..Len(table) : read' = [read EXCEPT ![c] = n]
    /\ UNCHANGED <<table, staged, over>>

\* Nobody else's files can be staged.
Stage(c) ==
    /\ c \notin over
    /\ read[c] # 0
    /\ \E files \in SUBSET File :
          /\ \A d \in Client \ {c} : staged[d] \cap files = {}
          /\ staged' = [staged EXCEPT ![c] = @ \cup files]
    /\ UNCHANGED <<table, read, over>>

\* Everything staged is added in one version, if the version read is the last one.
Commit(c) ==
    /\ c \notin over
    /\ read[c] = Len(table)
    /\ staged[c] # {}
    /\ table' = Append(table, [by |-> c, adds |-> staged[c]])
    /\ over' = over \cup {c}
    /\ UNCHANGED <<read, staged>>

\* Clients give up: by choice, on an error, or all at once when the process dies.
Abandon ==
    /\ \E gone \in SUBSET Client : gone # {} /\ over' = over \cup gone
    /\ UNCHANGED <<table, read, staged>>

\* Other engines commit versions of their own.
Foreign ==
    /\ table' = Append(table, [by |-> Nobody, adds |-> {}])
    /\ UNCHANGED <<read, staged, over>>

AbsNext ==
    \/ \E c \in Client : Read(c) \/ Stage(c) \/ Commit(c)
    \/ Abandon
    \/ Foreign

AbsSpec == AbsInit /\ [][AbsNext]_absVars
============================================================================
