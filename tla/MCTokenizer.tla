---------------------------- MODULE MCTokenizer ----------------------------
EXTENDS Tokenizer

MCLetters == {"a", "b", "<"}
MCSpecials == {<<"<", "a">>, <<"<", "a", "b">>}

MCMerges ==
    << << <<"a">>, <<"a">> >>,
       << <<"a">>, <<"b">> >>,
       << <<"_">>, <<"a">> >>,
       << <<"_", "a">>, <<"a">> >>,
       << <<"a", "b">>, <<"a", "a">> >>,
       << <<"_">>, <<"a", "b">> >>,
       << <<"a", "a">>, <<"a", "b">> >> >>

Texts(pieces, n) ==
    {FlattenSeq(text_pieces) : text_pieces \in UNION {[1 .. m -> pieces] : m \in 0 .. n}}

Pieces == {<<"a">>, <<"b">>, <<" ">>} \cup MCSpecials

MCVocab ==
    LET strings == <<<<"a">>, <<"b">>, <<"<">>, <<"_">>>>
                       \o [i \in DOMAIN MCMerges |-> MCMerges[i][1] \o MCMerges[i][2]]
    IN [s \in ToSet(strings) |-> CHOOSE i \in DOMAIN strings : strings[i] = s]

A == <<"<", "a">>
AB == <<"<", "a", "b">>
Entry(id, content, is_special) == [id |-> id, content |-> content, special |-> is_special]

(* Both special tokens new. *)
Plain ==
    [vocab |-> MCVocab, added |-> <<Entry(20, A, TRUE), Entry(21, AB, TRUE)>>,
     pad_token |-> A, bos_token_id |-> 20]

(* One of them trained already, the other declared twice; entries that are
   skipped. *)
Repeated ==
    [vocab |-> (A :> 30) @@ MCVocab,
     added |-> <<Entry(21, AB, TRUE), Entry(Unreadable, <<"b">>, TRUE), Entry(22, AB, TRUE),
                 Entry(30, A, TRUE), Entry(23, <<>>, TRUE)>>,
     pad_token |-> AB, bos_token_id |-> NoId]

(* A special token that declares a letter's id, a letter that declares an id of
   its own and keeps a special token from it. *)
Clashing ==
    [vocab |-> MCVocab,
     added |-> <<Entry(MCVocab[<<"a">>], A, TRUE), Entry(21, <<"a">>, FALSE),
                 Entry(21, AB, TRUE)>>,
     pad_token |-> <<"a">>, bos_token_id |-> 40]

(* No special token, and a pad token of the trained vocabulary. *)
NoSpecials ==
    [vocab |-> MCVocab, added |-> <<Entry(20, A, FALSE)>>,
     pad_token |-> <<"b">>, bos_token_id |-> NoId]

(* A pad token whose id cannot be read. *)
BadPad == [Plain EXCEPT !.added = <<Entry(Unreadable, A, TRUE), Entry(21, AB, TRUE)>>]

Singly(texts) == {<<t>> : t \in texts}

(* Texts of up to six pieces, with special tokens that begin alike, with two
   kinds of white space and what begins like a special token but is none; long
   words; and texts that meet what another has left in the cache. *)
MCTexts ==
    Singly(Texts(Pieces, 5))
    \cup Singly(Texts({<<"a">>, <<" ">>} \cup MCSpecials, 6))
    \cup Singly(Texts({<<"a">>, <<"<">>, <<" ">>, <<"newline">>}, 5))
    \cup Singly(Texts({<<"a">>, <<"b">>}, 7))
    \cup {<<t, u>> : t, u \in Texts({<<"a">>, <<"b">>, <<" ">>}, 3)}

MCJobs ==
    [files : {Plain}, texts : MCTexts]
    \cup [files : {Repeated, Clashing, NoSpecials, BadPad}, texts : Singly(Texts(Pieces, 4))]
=============================================================================
