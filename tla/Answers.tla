------------------------------ MODULE Answers ------------------------------
(***************************************************************************)
(* What a caller of the serving queue is promised, whatever the schedule:  *)
(* a request is answered at most once, never after it was cancelled or     *)
(* after serving failed, and the answer is the text that greedy decoding   *)
(* of its prompt alone produces.                                           *)
(***************************************************************************)
EXTENDS Integers, Sequences

CONSTANTS Ids, Stops, Pad, Select(_)

VARIABLES asked, withdrawn, answered, broken
vars == <<asked, withdrawn, answered, broken>>

NotAsked == [absent |-> TRUE]

\* The first n tokens that greedy decoding selects after a prompt.
Continuation(prompt, maximum) ==
  LET text[n \in 0 .. maximum] ==
        IF n = 0 THEN <<>>
        ELSE Append(text[n - 1], Select(prompt \o text[n - 1]))
  IN  text[maximum]

\* The answer: the continuation up to its first stop token, without it and,
\* unless stopping is disabled, without padding.
Greedy(request) ==
  LET text   == Continuation(request.prompt, request.maximum)
      stops  == {n \in 1 .. Len(text) : text[n] \in Stops}
      length == IF request.ignoreEos \/ stops = {} THEN Len(text)
                ELSE (CHOOSE n \in stops : \A m \in stops : n <= m) - 1
  IN  SelectSeq(SubSeq(text, 1, length),
                LAMBDA token : request.ignoreEos \/ token # Pad)

Init ==
  /\ asked = [id \in Ids |-> NotAsked]
  /\ withdrawn = {}
  /\ answered = [id \in Ids |-> <<>>]
  /\ broken = FALSE

Ask(id) ==
  /\ asked[id] = NotAsked
  /\ ~broken
  /\ \E request \in {asked'[id]} :
       request # NotAsked /\ asked' = [asked EXCEPT ![id] = request]
  /\ UNCHANGED <<withdrawn, answered, broken>>

Withdraw(id) ==
  /\ asked[id] # NotAsked
  /\ answered[id] = <<>>
  /\ id \notin withdrawn
  /\ withdrawn' = withdrawn \cup {id}
  /\ UNCHANGED <<asked, answered, broken>>

\* One return of the queue may hand over the answers of several requests.
Answer(S) ==
  /\ \A id \in S :
       /\ asked[id] # NotAsked
       /\ id \notin withdrawn
       /\ answered[id] = <<>>
  /\ ~broken
  /\ answered' = [id \in Ids |-> IF id \in S THEN <<Greedy(asked[id])>>
                                ELSE answered[id]]
  /\ UNCHANGED <<asked, withdrawn, broken>>

Break ==
  /\ ~broken
  /\ broken' = TRUE
  /\ UNCHANGED <<asked, withdrawn, answered>>

Next ==
  \/ \E id \in Ids : Ask(id) \/ Withdraw(id)
  \/ \E S \in SUBSET Ids : Answer(S)
  \/ Break

Spec == Init /\ [][Next]_vars
=============================================================================
