---------------------------- MODULE MCDictionary ----------------------------
(* Dictionary on a small instance: names in capitals, words in lower case. *)
EXTENDS Dictionary

\* A number is missing: term 1 was removed by hand.
Terms ==
    << [id |-> [prefix |-> 1, number |-> 2], canonical |-> <<"POD">>,
        phrases |-> {<<"pod">>, <<"po", "d">>}, policy |-> "safe", keywords |-> {}] >>

Strings == STRING
Words == {"pod", "po", "d", "svc", "x", "POD", "D", "SVC"}
Phrases == {<<a>> : a \in Words} \cup {<<a, b>> : a, b \in Words}

NewService ==
    [canonical |-> <<"SVC">>, prefix |-> 1, phrases |-> {<<"svc">>},
     policy |-> "context_required", keywords |-> {"pod"}]

Requests ==
    {NewService,
     Promoted(<<"d", "svc">>, NewService),
     [canonical |-> <<"D">>, prefix |-> 2, phrases |-> {<<"d">>, <<"pod">>},
      policy |-> "manual_review", keywords |-> {}]}

Transcripts ==
    { << <<"pod", "svc">>, <<"po", "d", "svc">> >>,
      << <<"x">>, <<"svc">>, <<"d", "pod">> >>,
      << <<"x", "BR", "pod">>, <<"d">> >> }

Answered == {<<>>, <<"POD", "BR", "D", "SVC">>, <<"BR", "x", "BR", "svc", "BR", "POD">>, <<"POD", "SVC", "POD", "D", "SVC">>}
=============================================================================
