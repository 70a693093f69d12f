----------------------------- MODULE Tokenizer -----------------------------
(***************************************************************************)
(* Text to token strings to ids: Tokenizer::tokenize scans a text for      *)
(* special tokens, hands the text between them to Bpe::encode_into, which  *)
(* takes it apart at white space and merges each word's bytes by rank.     *)
(* What a segment may do with its first word depends on the segments and   *)
(* special tokens before it; the merges of a word are cached for the life  *)
(* of the Bpe.  Which tokens are special, and which token has which id, is *)
(* what Vocabulary makes of the model's files.                             *)
(*                                                                         *)
(* Strings are sequences of characters.  The byte encoder is modelled by   *)
(* its one effect on printable text: the blank of a word's prefix becomes  *)
(* a character of its own.                                                 *)
(***************************************************************************)
EXTENDS Vocabulary

CONSTANTS
    Letters,         \* the printable characters
    Space, Newline,  \* white space
    MappedBlank,     \* the byte encoder's character for a blank
    Merges,          \* merges_: pairs of strings, the best first
    Jobs             \* the files of a tokenizer, and the texts it tokenizes in a row

Whitespace == {Space, Newline}

ASSUME TokenizerAssumption ==
    /\ Space \notin Letters /\ Newline \notin Letters
    /\ MappedBlank \notin Letters \cup Whitespace
    /\ \A j \in Jobs :
          /\ j.texts \in Seq(Seq(Letters \cup Whitespace)) \ {<<>>}
          /\ j.files.added \in Seq([id : Int, content : Seq(Letters), special : BOOLEAN])

(* A trained list of merges: what a merge joins is a character or was joined
   by an earlier merge, and no two merges join to the same. *)
ASSUME MergesAssumption ==
    /\ Merges \in Seq(Seq(Letters \cup {MappedBlank}) \X Seq(Letters \cup {MappedBlank}))
    /\ \A i \in DOMAIN Merges :
          /\ \A part \in {Merges[i][1], Merges[i][2]} :
                \/ Len(part) = 1
                \/ \E j \in 1 .. i - 1 : part = Merges[j][1] \o Merges[j][2]
          /\ \A j \in DOMAIN Merges :
                Merges[j][1] \o Merges[j][2] = Merges[i][1] \o Merges[i][2] => j = i

(* A trained vocabulary: one id for every character and for what every merge
   joins. *)
ASSUME VocabularyAssumption ==
    \A j \in Jobs :
        /\ IsInjective(j.files.vocab)
        /\ \A c \in Letters \cup {MappedBlank} : <<c>> \in DOMAIN j.files.vocab
        /\ \A i \in DOMAIN Merges : Merges[i][1] \o Merges[i][2] \in DOMAIN j.files.vocab

VARIABLES
    pc,
    files,                  \* tokenizer.json, tokenizer_config.json and the bos token
    maps,                   \* token2id_, id2token_ and special_tokens_
    pad_id,
    job,                    \* the texts still to tokenize, the current one first
    pos,                    \* where the scan goes on
    to_encode,                  \* what is left of the current segment
    special,                \* the match behind it
    local_first,            \* encode_into: does the next word go without a blank?
    tokens,
    first_word,
    suppress_prefix_next,
    bpe_cache               \* word -> tokens

session_vars == <<pos, to_encode, special, local_first, tokens, first_word, suppress_prefix_next>>
vocabulary == <<files, maps, pad_id>>
tokenizer_vars == <<pc, vocabulary, job, session_vars, bpe_cache>>

text == Head(job)
(* A set: the search takes the same match in whatever order they are sorted. *)
SpecialTokens == maps.special_tokens
NoMatch == [pos |-> 0, token |-> <<>>]

-----------------------------------------------------------------------------
(* find_next_special_token *)

OccursAt(string, part, at) ==
    LET end == at + Len(part) - 1
    IN end <= Len(string) /\ SubSeq(string, at, end) = part

Matches == {match \in [pos : pos .. Len(text), token : SpecialTokens] :
               OccursAt(text, match.token, match.pos)}

Before(m, n) ==
    \/ m.pos < n.pos
    \/ m.pos = n.pos /\ Len(m.token) > Len(n.token)

(* Mutant of NextSpecial: the longest special token, wherever it is. *)
NextSpecial_Longest ==
    CHOOSE m \in Matches : \A n \in Matches : Len(n.token) <= Len(m.token)
NextSpecial == CHOOSE m \in Matches : \A n \in Matches : m = n \/ Before(m, n)

(* compute_suppress_prefix_next: does a match touch text on both sides? *)
TouchesText(match) ==
    LET after == match.pos + Len(match.token)
    IN /\ match.pos > 1 /\ text[match.pos - 1] \notin Whitespace
       /\ after <= Len(text) /\ text[after] \notin Whitespace

(* What operator >> reads from a segment. *)
InWord(segment, i) == i \in DOMAIN segment /\ segment[i] \notin Whitespace
WordStarts(segment) == {i \in DOMAIN segment : InWord(segment, i) /\ ~InWord(segment, i - 1)}
WordEnd(segment, i) ==
    CHOOSE j \in i .. Len(segment) :
        ~InWord(segment, j + 1) /\ \A k \in i .. j : InWord(segment, k)
(* Where the n-th word starts. *)
WordStart(segment, n) ==
    CHOOSE i \in WordStarts(segment) : Cardinality({j \in WordStarts(segment) : j <= i}) = n
WordsIn(segment) ==
    [n \in 1 .. Cardinality(WordStarts(segment)) |->
        SubSeq(segment, WordStart(segment, n), WordEnd(segment, WordStart(segment, n)))]

-----------------------------------------------------------------------------
(* apply_bpe *)

MergeRank(left, right) == {i \in DOMAIN Merges : Merges[i] = <<left, right>>}
Ranks(parts) == UNION {MergeRank(parts[j], parts[j + 1]) : j \in 1 .. Len(parts) - 1}

Joined(parts, j) == ReplaceAt(RemoveAt(parts, j + 1), j, parts[j] \o parts[j + 1])

(* Mutant of Place: the last pair of the best rank. *)
Place_Last(places) == CHOOSE j \in places : \A k \in places : k <= j
(* The first pair of the best rank. *)
Place(places) == CHOOSE j \in places : \A k \in places : j <= k

MergeOnce(parts) ==
    IF Ranks(parts) = {} THEN parts
    ELSE LET best == CHOOSE r \in Ranks(parts) : \A s \in Ranks(parts) : r <= s
             at == {j \in 1 .. Len(parts) - 1 : best \in MergeRank(parts[j], parts[j + 1])}
         IN Joined(parts, Place(at))

Characters(word) == [i \in DOMAIN word |-> <<word[i]>>]

(* Every merge leaves one part less: as many as there are characters do. *)
ApplyMerges(word) ==
    LET merged[n \in 0 .. Len(word)] ==
            IF n = 0 THEN Characters(word) ELSE MergeOnce(merged[n - 1])
    IN merged[Len(word)]

-----------------------------------------------------------------------------
(* The EncodingSession of the next text. *)
Fresh ==
    /\ pos' = 1 /\ to_encode' = <<>> /\ special' = NoMatch
    /\ local_first' = FALSE
    /\ tokens' = <<>>
    /\ first_word' = TRUE /\ suppress_prefix_next' = FALSE

TokenizerInit ==
    /\ \E j \in Jobs : files = j.files /\ job = j.texts
    /\ maps = Registered(files) /\ pad_id = PadId(files, maps)
    /\ pc = IF PadThrows(files) THEN "not created" ELSE "scan"
    /\ pos = 1 /\ to_encode = <<>> /\ special = NoMatch
    /\ local_first = FALSE
    /\ tokens = <<>>
    /\ first_word = TRUE /\ suppress_prefix_next = FALSE
    /\ bpe_cache = <<>>

(* encode_plain_segment up to its first word. *)
BeginSegment(from, to) ==
    /\ to_encode' = WordsIn(SubSeq(text, from, to))
    /\ local_first' = (first_word \/ suppress_prefix_next)
    /\ pc' = "words"

(* One iteration of run. *)
Scan ==
    /\ pc = "scan" /\ pos <= Len(text)
    /\ IF Matches = {}
       THEN BeginSegment(pos, Len(text)) /\ special' = NoMatch /\ pos' = Len(text) + 1
       ELSE /\ BeginSegment(pos, NextSpecial.pos - 1)
            /\ special' = NextSpecial
            /\ pos' = NextSpecial.pos + Len(NextSpecial.token)
    /\ UNCHANGED <<vocabulary, job, tokens, first_word, suppress_prefix_next, bpe_cache>>

Prefixed(word) == IF local_first THEN word ELSE <<MappedBlank>> \o word

(* One iteration of encode_into; first_word is only read again when a segment
   is done. *)
EncodeWord ==
    /\ pc = "words" /\ to_encode # <<>>
    /\ LET word == Prefixed(Head(to_encode))
           parts == IF word \in DOMAIN bpe_cache THEN bpe_cache[word]
                    ELSE ApplyMerges(word)
       IN /\ tokens' = tokens \o parts
          /\ bpe_cache' = With(bpe_cache, word, parts)
    /\ to_encode' = Tail(to_encode)
    /\ local_first' = FALSE /\ first_word' = FALSE
    /\ UNCHANGED <<pc, vocabulary, job, pos, special, suppress_prefix_next>>

(* Mutant of SuppressPrefix: once it is set, it stays. *)
SuppressPrefix_Sticks(match) == suppress_prefix_next \/ TouchesText(match)
SuppressPrefix(match) == TouchesText(match)

(* The special token behind a segment, if there is one. *)
PushSpecial ==
    /\ pc = "words" /\ to_encode = <<>>
    /\ IF special = NoMatch THEN UNCHANGED <<tokens, suppress_prefix_next>>
       ELSE /\ tokens' = Append(tokens, special.token)
            /\ suppress_prefix_next' = SuppressPrefix(special)
    /\ pc' = "scan"
    /\ UNCHANGED <<vocabulary, job, pos, to_encode, special, local_first, first_word, bpe_cache>>

AtEnd == pc = "scan" /\ pos > Len(text)

(* The next text meets the same Bpe. *)
NextText ==
    /\ AtEnd /\ Len(job) > 1
    /\ job' = Tail(job)
    /\ Fresh
    /\ UNCHANGED <<pc, vocabulary, bpe_cache>>

Done ==
    /\ \/ pc = "not created"
       \/ AtEnd /\ Len(job) = 1
    /\ UNCHANGED tokenizer_vars

TokenizerNext == Scan \/ EncodeWord \/ PushSpecial \/ NextText \/ Done

TokenizerSpec == TokenizerInit /\ [][TokenizerNext]_tokenizer_vars

-----------------------------------------------------------------------------
(* Bpe::decode *)
Decode(strings) ==
    LET joined == FlattenSeq(strings)
    IN [i \in DOMAIN joined |-> IF joined[i] = MappedBlank THEN Space ELSE joined[i]]

(* How many characters of a special token begin or go on at each place of the
   text; a special token begins where it is met, and the longest wins. *)
LongestAt(string, at) ==
    LET lengths == {0} \cup {Len(s) : s \in {s \in SpecialTokens : OccursAt(string, s, at)}}
    IN CHOOSE n \in lengths : \A m \in lengths : m <= n

SpecialRest(string) ==
    LET rest[i \in 0 .. Len(string)] ==
            IF i = 0 THEN 0
            ELSE IF rest[i - 1] > 1 THEN rest[i - 1] - 1 ELSE LongestAt(string, i)
    IN rest

(* A text as the model is to see it: special tokens and letters as they are,
   no white space but one blank in front of each word, where a word begins
   behind white space or a special token; the first word has none, nor has a
   word that continues a special token which itself continues text.  A special
   token that is no token of the vocabulary is lost. *)
Normalized(string) ==
    LET rest == SpecialRest(string)
        letter(i) == i >= 1 /\ rest[i] = 0 /\ string[i] \notin Whitespace
        text_at(i) == i >= 1 /\ string[i] \notin Whitespace
        begins(i) == letter(i) /\ ~letter(i - 1)
        starts(i) == rest[i] > 0 /\ rest[i - 1] <= 1
        start(i) == CHOOSE s \in 1 .. i :      \* of the special token at i
                        starts(s) /\ \A k \in s + 1 .. i : ~starts(k)
        lost(i) == /\ rest[i] > 0
                   /\ SubSeq(string, start(i), i + rest[i] - 1) \notin DOMAIN maps.token2id
        joins(i) == i > 1 /\ rest[i - 1] = 1 /\ text_at(start(i - 1) - 1)
        blank(i) == /\ begins(i) /\ ~joins(i)
                    /\ \E j \in 1 .. i - 1 : letter(j)
    IN FlattenSeq([i \in 1 .. Len(string) |->
           IF blank(i) THEN <<Space, string[i]>>
           ELSE IF (rest[i] = 0 /\ ~letter(i)) \/ lost(i) THEN <<>>
           ELSE <<string[i]>>])

(* The ids are all the model ever learns of a prompt.  Read back as its answers
   are read, they are the bos token and the text: no letter is lost, moved or
   doubled and no two words are joined or parted by the segments, the special
   tokens between them, what an earlier text left in the cache, or added tokens
   that were declared twice or under an id or a text that is taken. *)
DecodeRestoresText ==
    AtEnd => LET Read(ids) == Decode(IdsToTokens(maps, ids))
             IN Read(TokensToIds(files, maps, tokens))
                    = Read(TokensToIds(files, maps, <<>>)) \o Normalized(text)

Specials(strings) == {i \in DOMAIN strings : strings[i] \in SpecialTokens}

(* A special token is never taken apart: the text between two of them holds no
   other. *)
SpecialsStayWhole ==
    AtEnd => \A i, j \in DOMAIN tokens :
        (i .. j) \cap Specials(tokens) = {} =>
            LET plain == Decode(SubSeq(tokens, i, j))
            IN \A s \in SpecialTokens, at \in DOMAIN plain : ~OccursAt(plain, s, at)

(* The servers drop every sampled pad_id from the answers: where the files
   agree it is the pad token's own id, and not the id of a text or of nothing,
   although it is read past the maps and the pad token may be declared twice. *)
PadNamesItsToken ==
    Consistent(files) /\ pad_id # NoId /\ pc # "not created" =>
        /\ pad_id \in DOMAIN maps.id2token /\ maps.id2token[pad_id] = files.pad_token
        /\ maps.token2id[files.pad_token] = pad_id

(* The algorithm as it was published merges every occurrence of the best pair
   at once. *)
MergeEvery(parts) ==
    IF Ranks(parts) = {} THEN parts
    ELSE LET best == Merges[CHOOSE r \in Ranks(parts) : \A s \in Ranks(parts) : r <= s]
             add(done, part) ==
                IF done # <<>> /\ Last(done) = best[1] /\ part = best[2]
                THEN Append(Front(done), best[1] \o best[2])
                ELSE Append(done, part)
         IN FoldLeft(add, <<>>, parts)

PublishedMerges(word) ==
    FoldLeft(LAMBDA parts, i : MergeEvery(parts), Characters(word), word)

(* Merging one occurrence at a time, and remembering the result, never gives a
   word other tokens than the published algorithm, the one that made the
   model's training data. *)
MergesAsPublished ==
    \A word \in DOMAIN bpe_cache : bpe_cache[word] = PublishedMerges(word)

=============================================================================
