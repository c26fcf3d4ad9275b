------------------------------ MODULE HostNames ------------------------------
(***************************************************************************)
(* The conversions between host names and addresses, in each version of    *)
(* uiciname.c and u_accept, called by several threads at a time.           *)
(***************************************************************************)
EXTENDS Naturals, FiniteSets

CONSTANTS Lookers,      \* the threads
          NameVersions  \* of {"none", "r", "mutex", "posix", "u_accept_r1", "u_accept_r2"}

VARIABLES
    version,    \* constant: REENTRANCY, or the version of u_accept
    hostent,    \* whose answer the static storage of gethostbyname holds
    namelock,   \* the owner of mutex, or NoThread
    looker      \* thread -> [call, pc, found, name], name: whose name it returns

namevars == <<version, hostent, namelock, looker>>

NoThread == "nobody"

ASSUME NamesAssumption ==
    /\ IsFiniteSet(Lookers) /\ NoThread \notin Lookers
    /\ NameVersions \subseteq {"none", "r", "mutex", "posix", "u_accept_r1", "u_accept_r2"}

Static == version \in {"none", "mutex", "u_accept_r2"}
Guarded == version \in {"mutex", "u_accept_r2"}
\* u_accept converts an address; a name that starts with a digit is an address already.
\* One thread at a time where the program says that it is not reentrant.
LookupCalls == IF version \in {"u_accept_r1", "u_accept_r2"} THEN {"addr2name"} ELSE {"addr2name", "name2addr", "numeric"}

Asking(c) == [call |-> c, pc |-> IF c = "numeric" THEN "number" ELSE "lock", found |-> FALSE, name |-> NoThread]
Resting == [Asking("addr2name") EXCEPT !.pc = "end"]

NamesInit ==
    /\ version \in NameVersions
    /\ hostent = NoThread /\ namelock = NoThread
    /\ \E busy \in SUBSET Lookers :
          /\ version = "none" => Cardinality(busy) = 1
          /\ looker \in [Lookers -> {Asking(c) : c \in LookupCalls} \cup {Resting}]
          /\ \A t \in Lookers : t \in busy <=> looker[t] # Resting

LookerTo(t, from, r) == looker[t].pc = from /\ looker' = [looker EXCEPT ![t] = r] /\ UNCHANGED version

\* pthread_mutex_lock is taken to succeed.
LockNames(t) ==
    /\ Guarded => namelock = NoThread
    /\ namelock' = IF Guarded THEN t ELSE namelock
    /\ LookerTo(t, "lock", [looker[t] EXCEPT !.pc = "lookup"])
    /\ UNCHANGED hostent

\* inet_addr; it takes no lock.
Number(t) == LookerTo(t, "number", [looker[t] EXCEPT !.pc = "end", !.name = t]) /\ UNCHANGED <<hostent, namelock>>

\* Mutant of CopyName: it unlocks first.
CopyAfterUnlock(t) ==
    \/ /\ Guarded /\ namelock = t /\ namelock' = NoThread /\ looker[t].pc = "copy" /\ UNCHANGED <<version, hostent, looker>>
    \/ /\ namelock # t /\ UNCHANGED <<hostent, namelock>>
       /\ LookerTo(t, "copy", [looker[t] EXCEPT !.pc = "unlock", !.name = IF looker[t].found /\ Static THEN hostent ELSE t])

\* gethostbyaddr and gethostbyname answer in static storage, and the others in that
\* of the caller.
LookupName(t) ==
    /\ \E found \in BOOLEAN : LookerTo(t, "lookup", [looker[t] EXCEPT !.pc = "copy", !.found = found])
    /\ hostent' = IF Static THEN t ELSE hostent
    /\ UNCHANGED namelock

\* What is not found leaves the number for a name, or is an error.
CopyName(t) ==
    /\ LookerTo(t, "copy", [looker[t] EXCEPT !.pc = "unlock", !.name =
           CASE looker[t].found /\ Static -> hostent [] ~looker[t].found /\ looker[t].call = "name2addr" -> NoThread [] OTHER -> t])
    /\ UNCHANGED <<hostent, namelock>>

UnlockNames(t) ==
    /\ LookerTo(t, "unlock", [looker[t] EXCEPT !.pc = "end"])
    /\ namelock' = IF Guarded /\ namelock = t THEN NoThread ELSE namelock
    /\ UNCHANGED hostent

LookerStep(t) == LockNames(t) \/ Number(t) \/ LookupName(t) \/ CopyName(t) \/ UnlockNames(t)
NamesNext == \E t \in Lookers : LookerStep(t)
NamesSpec == NamesInit /\ [][NamesNext]_namevars

\* Every caller gets the name of its own host, whatever the others ask for in the
\* meantime, and mutex is free in the end.
NamesMatch ==
    /\ \A t \in Lookers : looker[t].name \in {NoThread, t}
    /\ (\A t \in Lookers : looker[t].pc = "end") => namelock = NoThread
NamesDone == \A t \in Lookers : looker[t].pc = "end"
=============================================================================
