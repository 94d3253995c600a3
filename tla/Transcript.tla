----------------------------- MODULE Transcript ------------------------------
(***************************************************************************)
(* camisole.proxy.IOTranscript: the rounds that a verbose execution shows. *)
(* Each chunk of the user makes a round; a chunk of the judge goes to the  *)
(* oldest round that still waits for one, or makes a round of its own.     *)
(***************************************************************************)
EXTENDS Naturals, Sequences

\* user and judge: the chunks the round shows, none for the empty text.
Round(user, judge, violation) == [user |-> user, judge |-> judge, violation |-> violation]

\* pending: the places of the rounds that wait for the judge, oldest first.
EmptyTranscript == [rounds |-> <<>>, pending |-> <<>>]

AddUserInput(t, chunk, violation) ==
  [rounds |-> Append(t.rounds, Round(<<chunk>>, <<>>, violation)),
   pending |-> Append(t.pending, Len(t.rounds) + 1)]

AddJudgeOutputToNewest(t, chunk) ==
  IF t.pending # <<>>
    THEN [rounds |-> [t.rounds EXCEPT ![t.pending[Len(t.pending)]].judge = Append(@, chunk)],
          pending |-> SubSeq(t.pending, 1, Len(t.pending) - 1)]
    ELSE [t EXCEPT !.rounds = Append(@, Round(<<>>, <<chunk>>, FALSE))]

AddJudgeOutput(t, chunk) ==
  IF t.pending # <<>>
    THEN [rounds |-> [t.rounds EXCEPT ![Head(t.pending)].judge = Append(@, chunk)],
          pending |-> Tail(t.pending)]
    ELSE [t EXCEPT !.rounds = Append(@, Round(<<>>, <<chunk>>, FALSE))]
=============================================================================
