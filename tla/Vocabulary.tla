----------------------------- MODULE Vocabulary -----------------------------
(***************************************************************************)
(* From token strings to ids and back: what Tokenizer::init_from_config    *)
(* makes of the two files of a model.  tokenizer.json gives the trained    *)
(* vocabulary; tokenizer_config.json declares added tokens, some of them   *)
(* special, and names the pad token.  Neither file is checked against the  *)
(* other: an added token is registered only if its text and its id are     *)
(* both free, is special even if it is not registered, and the pad id is   *)
(* read from the declaration, not from the registered maps.                *)
(*                                                                         *)
(* The files are a record: vocab (a function from strings to ids), added   *)
(* (the entries of added_tokens_decoder in the order items() gives them,   *)
(* each with its id as std::stoi reads it, its content and whether it is   *)
(* special), pad_token, and bos_token_id.  An absent string is empty.      *)
(***************************************************************************)
EXTENDS Integers, SequencesExt

NoId == -1
Unreadable == -2      \* an id std::stoi throws at

(* parse_added_tokens *)
AddedTokens(files) ==
    {n \in DOMAIN files.added : files.added[n].content # <<>> /\ files.added[n].id # Unreadable}

(* init_tokenizer_config *)
Trained(files) ==
    [token2id |-> files.vocab, id2token |-> AntiFunction(files.vocab), special_tokens |-> {}]

(* Mutant of Taken: an entry is skipped only if both are known. *)
Taken_Both(maps, info) ==
    info.content \in DOMAIN maps.token2id /\ info.id \in DOMAIN maps.id2token
Taken(maps, info) ==
    info.content \in DOMAIN maps.token2id \/ info.id \in DOMAIN maps.id2token

(* map[key] = value *)
With(map, key, value) ==
    [k \in DOMAIN map \cup {key} |-> IF k = key THEN value ELSE map[k]]

(* One iteration of register_added_tokens. *)
Register(maps, info) ==
    LET known == IF info.special
                 THEN [maps EXCEPT !.special_tokens = @ \cup {info.content}] ELSE maps
    IN IF Taken(maps, info) THEN known
       ELSE [known EXCEPT !.token2id = With(@, info.content, info.id),
                          !.id2token = With(@, info.id, info.content)]

(* register_added_tokens; maps[n] is what the first n entries leave. *)
Registered(files) ==
    LET maps[n \in 0 .. Len(files.added)] ==
            IF n = 0 THEN Trained(files)
            ELSE IF n \in AddedTokens(files) THEN Register(maps[n - 1], files.added[n])
            ELSE maps[n - 1]
    IN maps[Len(files.added)]

-----------------------------------------------------------------------------
(* parse_pad_id *)

DeclaredPads(files) == {n \in DOMAIN files.added : files.added[n].content = files.pad_token}

(* Mutant of PadEntry: without the break, the last entry counts. *)
PadEntry_NoBreak(files) == CHOOSE n \in DeclaredPads(files) : \A m \in DeclaredPads(files) : m <= n
PadEntry(files) == CHOOSE n \in DeclaredPads(files) : \A m \in DeclaredPads(files) : n <= m

DeclaredPad(files) ==
    IF files.pad_token = <<>> \/ DeclaredPads(files) = {} THEN NoId
    ELSE files.added[PadEntry(files)].id

(* Only here std::stoi is not guarded: the tokenizer is not created. *)
PadThrows(files) == DeclaredPad(files) = Unreadable

PadId(files, maps) ==
    IF DeclaredPad(files) < 0 /\ files.pad_token \in DOMAIN maps.token2id
    THEN maps.token2id[files.pad_token] ELSE DeclaredPad(files)

-----------------------------------------------------------------------------
(* What is unknown is left out, with a warning in the log. *)
Known(strings, map) ==
    LET known == SelectSeq(strings, LAMBDA s : s \in DOMAIN map)
    IN [i \in DOMAIN known |-> map[known[i]]]

(* tokens_to_ids *)
TokensToIds(files, maps, tokens) ==
    (IF files.bos_token_id >= 0 THEN <<files.bos_token_id>> ELSE <<>>)
        \o Known(tokens, maps.token2id)

(* ids_to_tokens *)
IdsToTokens(maps, ids) == Known(ids, maps.id2token)

-----------------------------------------------------------------------------
(* Each added token can have the id it declares: whatever has the id or the
   text already, trained or declared, has both or declares the same text
   again. *)
Consistent(files) ==
    \A i \in AddedTokens(files) :
        LET info == files.added[i]
            trained == files.vocab
        IN /\ info.content \in DOMAIN trained => trained[info.content] = info.id
           /\ info.id \in Range(trained) => info.content \in DOMAIN trained
           /\ \A j \in AddedTokens(files) :
                  files.added[j].id = info.id => files.added[j].content = info.content

=============================================================================
