---------------------------- MODULE RWKVTokenizer ----------------------------
(***************************************************************************)
(* vkwr/tokenizers/rwkv7.py over an alphabet that has what matters of      *)
(* UTF-8: bytes that are characters, and a character of the two bytes      *)
(* Lead, Cont, neither of which means anything alone.  A character is      *)
(* named by its first byte, so that a text is its bytes without Cont.      *)
(***************************************************************************)
EXTENDS Integers, Sequences, SequencesExt

CONSTANT Vocab   \* _idx2token: id -> bytes

Lead == "L"
Cont == "C"

\* The bytes that are tokens by themselves.
Bytes == {Vocab[t][1] : t \in {u \in DOMAIN Vocab : Len(Vocab[u]) = 1}}

\* The vocabulary file names every byte, and no token twice; it has no token 0.
ASSUME VocabAssumption ==
  /\ DOMAIN Vocab \subseteq Nat /\ 0 \in DOMAIN Vocab /\ Vocab[0] = <<>>
  /\ \A t \in DOMAIN Vocab : Vocab[t] \in Seq(Bytes)
  /\ \A t, u \in DOMAIN Vocab : Vocab[t] = Vocab[u] => t = u
  /\ {Lead, Cont} \subseteq Bytes

\* What a user can write: characters made of these bytes.
IsText(s) == s \in Seq(Bytes \ {Cont})

\* What a sequence has at some of its places.
Kept(s, places) ==
  FlattenSeq([i \in DOMAIN s |-> IF i \in places THEN <<s[i]>> ELSE <<>>])

IsUtf8(bytes) ==
  \A i \in DOMAIN bytes :
    /\ bytes[i] = Lead => i < Len(bytes) /\ bytes[i + 1] = Cont
    /\ bytes[i] = Cont => i > 1 /\ bytes[i - 1] = Lead

\* str.encode, and bytes.decode of what is valid.
BytesOf(text) ==
  FlattenSeq([i \in DOMAIN text |-> IF text[i] = Lead THEN <<Lead, Cont>> ELSE <<text[i]>>])
TextOf(bytes) == Kept(bytes, {i \in DOMAIN bytes : bytes[i] # Cont})

\* Where UnicodeDecodeError says the first undecodable byte is.
ErrorStart(bytes) == Max({n \in 0 .. Len(bytes) : IsUtf8(SubSeq(bytes, 1, n))})

\* decode(errors="ignore")
Ignoring(bytes) ==
  Kept(bytes, {i \in DOMAIN bytes :
                 /\ bytes[i] # Cont
                 /\ bytes[i] = Lead => i < Len(bytes) /\ bytes[i + 1] = Cont})

is_special(token) == token = 0
get_token_bytes(token) == IF token \in DOMAIN Vocab THEN Vocab[token] ELSE <<>>

\* The trie, its nodes named by the bytes that lead there: the token a node ends, plus 1,
\* or 0.
Trie ==
  LET tokens == DOMAIN Vocab \ {0}
      nodes == UNION {{SubSeq(Vocab[t], 1, n) : n \in 1 .. Len(Vocab[t])} : t \in tokens}
  IN  [node \in nodes |-> IF \E t \in tokens : Vocab[t] = node
                          THEN 1 + CHOOSE t \in tokens : Vocab[t] = node ELSE 0]

\* The walk down from src[i], as far as there are nodes; the last token passed counts.
Walk(src, i) ==
  LET passed == {j \in i .. Len(src) : \A k \in i .. j : SubSeq(src, i, k) \in DOMAIN Trie}
      ends   == {j \in passed : Trie[SubSeq(src, i, j)] # 0}
  IN  IF ends = {} THEN 0 ELSE Trie[SubSeq(src, i, Max(ends))] - 1

encode(text) ==
  LET src == BytesOf(text)
      from[i \in 1 .. Len(src) + 1] ==
        IF i > Len(src) THEN <<>>
        ELSE <<Walk(src, i)>> \o from[i + Len(Vocab[Walk(src, i)])]
  IN  from[1]

\* The bytes that tokens stand for.
Joined(tokens) == FlattenSeq([i \in DOMAIN tokens |-> get_token_bytes(tokens[i])])
=============================================================================
