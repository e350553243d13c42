------------------------------- MODULE Labels -------------------------------
(***************************************************************************)
(* The labels by which the user names clients (client.c, and the calls of  *)
(* clientwin.c).  A client is labelled with the title of its first window; *)
(* clients with one title form a ring (label_next, label_prev), ordered by *)
(* instance number, and the number is appended to the title, "xterm<1>",   *)
(* unless it is 0.                                                         *)
(***************************************************************************)
EXTENDS Integers, SequencesExt, FiniteSetsExt

CONSTANTS
  Client,      \* clients
  Titles,      \* what a program may call a window, as tuples of parts
  Untitled,    \* untitled_label, for a window with no name
  NULL,
  MaxWindows   \* bound on the windows of all clients

ASSUME LabelsAssumption ==
  /\ IsFiniteSet(Client) /\ Client # {}
  /\ MaxWindows \in Nat \ {0}
  /\ NULL \notin Client

VARIABLES
  list,         \* wglobal.client_list
  names,        \* the titles of a client's windows, oldest window first
  label_next,   \* the rings
  label_prev,
  label_inst,
  failed        \* an assertion failed, or use_label walks for ever

vars == <<list, names, label_next, label_prev, label_inst, failed>>

NoNumber == -1  \* INT_MAX, more than any number of a client

Name == Titles \cup {Untitled}

Managed == ToSet(list)

BegLabel(c) == names[c][1]

\* scat(str, "<%d>"): a title may itself end in such a suffix.
FullLabel(c) ==
  IF label_inst[c] = 0 THEN BegLabel(c) ELSE BegLabel(c) \o <<label_inst[c]>>

Init ==
  /\ list = <<>>
  /\ names = [c \in Client |-> <<>>]
  /\ label_next = [c \in Client |-> c]
  /\ label_prev = [c \in Client |-> c]
  /\ label_inst = [c \in Client |-> 0]
  /\ failed = FALSE

-----------------------------------------------------------------------------
(* Rings, as records so that a handler can unuse one label and use another. *)

Rings == [next |-> label_next, prev |-> label_prev, inst |-> label_inst]

SetRings(r) ==
  /\ label_next' = r.next /\ label_prev' = r.prev /\ label_inst' = r.inst

UnuseLabel(r, c) ==
  [next |-> [r.next EXCEPT ![r.prev[c]] = r.next[c], ![c] = c],
   prev |-> [r.prev EXCEPT ![r.next[c]] = r.prev[c], ![c] = c],
   inst |-> [r.inst EXCEPT ![c] = 0]]

\* Mutant: the number of the first is not looked at.
ZeroIsFreeAlways(last, first) == last >= first

\* The lowest number of the ring is not 0, so the client can come before it.
ZeroIsFree(last, first) == last >= first /\ first # 0

\* A step of the walk of use_label along a ring, at p: minp is where to link the client,
\* and mininst the number it will have.
WalkStep(r, x) ==
  LET np   == r.next[x.p]
      free == r.inst[x.p] + 1
  IN  IF x.done THEN x
      ELSE IF free = r.inst[np] THEN [x EXCEPT !.p = np]
      ELSE IF ZeroIsFree(r.inst[x.p], r.inst[np])
      THEN [x EXCEPT !.minp = x.p, !.mininst = 0, !.done = TRUE]
      ELSE IF x.mininst = NoNumber \/ free < x.mininst
      THEN [x EXCEPT !.p = np, !.minp = x.p, !.mininst = free]
      ELSE [x EXCEPT !.done = TRUE]

\* Two rounds are enough, if the ring is in order.
MaxWalk == 2 * Cardinality(Client) + 1

Departure(start) == [p |-> start, minp |-> NULL, mininst |-> NoNumber, done |-> FALSE]

FreePlace(r, start) ==
  LET walk[n \in 0..MaxWalk] ==
        IF n = 0 THEN Departure(start) ELSE WalkStep(r, walk[n - 1])
  IN  walk[MaxWalk]

\* The clients that already go by the label, as their places in client_list.
Namesakes(q, nm, c) == {i \in DOMAIN q : q[i] # c /\ nm[q[i]][1] = nm[c][1]}

\* client_use_label: c is linked into the ring of its first namesake.
UseLabel(q, nm, r, c) ==
  IF Namesakes(q, nm, c) = {}
  THEN SetRings(r) /\ UNCHANGED failed
  ELSE LET place == FreePlace(r, q[Min(Namesakes(q, nm, c))])
           minp == place.minp
       IN  IF ~place.done \/ minp = NULL
           THEN SetRings(r) /\ failed' = TRUE
           ELSE /\ SetRings([r EXCEPT !.next[c] = r.next[minp],
                                      !.prev[r.next[minp]] = c,
                                      !.next[minp] = c,
                                      !.prev[c] = minp,
                                      !.inst[c] = place.mininst])
                /\ UNCHANGED failed

-----------------------------------------------------------------------------
(* Operations. *)

Windows == FoldFunction(LAMBDA titles, n : Len(titles) + n, 0, names)

\* create_client, and client_add_clientwin with its first window.
NewClient(c, t) ==
  /\ ~failed /\ c \notin Managed /\ Windows < MaxWindows
  /\ list' = Append(list, c)
  /\ names' = [names EXCEPT ![c] = <<t>>]
  /\ UseLabel(list', names', Rings, c)

\* client_add_clientwin with a transient.
AddWindow(c, t) ==
  /\ ~failed /\ c \in Managed /\ Windows < MaxWindows
  /\ names' = [names EXCEPT ![c] = Append(@, t)]
  /\ UNCHANGED <<list, label_next, label_prev, label_inst, failed>>

\* A window is destroyed; deinit_client if it was the last.  The label of the
\* client becomes that of the next window, but its ring is not looked at.
RemoveWindow(c, i) ==
  /\ ~failed /\ c \in Managed /\ i \in DOMAIN names[c]
  /\ names' = [names EXCEPT ![c] = RemoveAt(@, i)]
  /\ IF Len(names[c]) = 1
     THEN /\ list' = RemoveAt(list, CHOOSE n \in DOMAIN list : list[n] = c)
          /\ SetRings(UnuseLabel(Rings, c))
     ELSE UNCHANGED <<list, label_next, label_prev, label_inst>>
  /\ UNCHANGED failed

\* set_clientwin_name, when the program has set the property WM_NAME.
SetName(c, i, t) ==
  /\ ~failed /\ c \in Managed /\ i \in DOMAIN names[c]
  /\ names' = [names EXCEPT ![c][i] = t]
  /\ IF i = 1
     THEN UseLabel(list, names', UnuseLabel(Rings, c), c)
     ELSE UNCHANGED <<label_next, label_prev, label_inst, failed>>
  /\ UNCHANGED list

Next ==
  \/ \E c \in Client, t \in Name : NewClient(c, t) \/ AddWindow(c, t)
  \/ \E c \in Client, i \in 1..MaxWindows :
       RemoveWindow(c, i) \/ \E t \in Titles : SetName(c, i, t)

Spec == Init /\ [][Next]_vars

-----------------------------------------------------------------------------
(* Properties. *)

TypeOK ==
  /\ list \in Seq(Client) /\ IsInjective(list)
  /\ names \in [Client -> Seq(Name)]
  /\ \A c \in Client : names[c] # <<>> <=> c \in Managed
  /\ label_next \in [Client -> Client] /\ label_prev \in [Client -> Client]
  /\ label_inst \in [Client -> Nat]

\* The clients in the ring of c.
Ring(c) ==
  LET reach[n \in 0..Cardinality(Client)] ==
        IF n = 0 THEN {c} ELSE reach[n - 1] \cup {label_next[d] : d \in reach[n - 1]}
  IN  reach[Cardinality(Client)]

\* Every ring is closed, holds only managed clients, and goes up in instance
\* numbers once round, whatever order clients come, go and are renamed in, and
\* even when a ring has come to hold clients of different titles: the walk of
\* use_label relies on this to find a free number and to end.
RingsInOrder ==
  /\ TypeOK /\ ~failed
  /\ \A c \in Managed :
       /\ label_next[c] \in Managed
       /\ label_prev[label_next[c]] = c /\ label_next[label_prev[c]] = c
       /\ \A d \in Ring(c) : d # c => label_inst[d] # label_inst[c]
       /\ \/ label_inst[c] < label_inst[label_next[c]]
          \/ \A d \in Ring(c) : /\ label_inst[label_next[c]] <= label_inst[d]
                                /\ label_inst[d] <= label_inst[c]
=============================================================================
