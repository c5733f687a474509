----------------------------- MODULE CommandParser -----------------------------
(***************************************************************************)
(* How iot_server finds the name of a command in a message of the cloud    *)
(* (_DS_call_default_command_cb of jni/server/IOT_DeviceShadow.cpp): with  *)
(* strstr and strchr, not with a parser.                                   *)
(*                                                                         *)
(* A message is a sequence of characters.  The word command counts as one; *)
(* any character but the three marks stands for every other.               *)
(***************************************************************************)
EXTENDS Naturals, Sequences

CONSTANTS
  COMMAND_MAX_LEN,  \* the size of the buffer for the name
  Char              \* the characters of which the cloud makes keys and values

Quote == "'"
Colon == ":"
Comma == ","
Open == "{"
Close == "}"
Word == "command"

ASSUME ParserAssumption == COMMAND_MAX_LEN \in Nat \ {0} /\ Quote \notin Char

\* No name: the message is dropped.
FormatError == <<"Command format error!">>
TooLong == <<"Command name is too long!">>

-----------------------------------------------------------------------------
\* The least position from which P holds, 0 if there is none.
Least(P) == IF P = {} THEN 0 ELSE CHOOSE i \in P : \A j \in P : i <= j

\* strchr from position i on.
Strchr(data, i, c) == Least({j \in i..Len(data) : data[j] = c})

\* strstr of the quoted word.
Strstr(data) ==
  Least({i \in 1..(Len(data) - 2) :
           data[i] = Quote /\ data[i + 1] = Word /\ data[i + 2] = Quote})

\* The length compared without the opening quote.
ParseOffByOne(data) ==
  LET ptr == Strstr(data)
      colon == Strchr(data, ptr, Colon)
      comma == Strchr(data, colon, Comma)
      p1 == Strchr(data, colon, Quote)
      p2 == Strchr(data, p1 + 1, Quote)
  IN IF ptr = 0 \/ colon = 0 \/ comma = 0 \/ p1 = 0 \/ p1 > comma \/ p2 = 0 THEN FormatError
     ELSE IF p2 - p1 - 1 > COMMAND_MAX_LEN THEN TooLong
     ELSE SubSeq(data, p1 + 1, p2 - 1)

\* The text between the first two quotes behind the colon that follows the
\* word.  The first of them must come before a comma; the length that is
\* compared counts the opening quote.
Parse(data) ==
  LET ptr == Strstr(data)
      colon == Strchr(data, ptr, Colon)
      comma == Strchr(data, colon, Comma)
      p1 == Strchr(data, colon, Quote)
      p2 == Strchr(data, p1 + 1, Quote)
  IN IF ptr = 0 \/ colon = 0 \/ comma = 0 \/ p1 = 0 \/ p1 > comma \/ p2 = 0 THEN FormatError
     ELSE IF p2 - p1 > COMMAND_MAX_LEN THEN TooLong
     ELSE SubSeq(data, p1 + 1, p2 - 1)

-----------------------------------------------------------------------------
(* What the cloud sends: an object with fields of which each has a word as  *)
(* its key and a string or a number as its value.  No character of a key or *)
(* a value is a quote.                                                     *)

Field == [key : Char, quoted : BOOLEAN, text : Seq(Char)]

Quoted(s) == <<Quote>> \o s \o <<Quote>>

Rendered(f) ==
  Quoted(<<f.key>>) \o <<Colon>> \o (IF f.quoted THEN Quoted(f.text) ELSE f.text)

\* A field as it is sent, with what stands before it.
Sent(sep, f) == <<sep>> \o Rendered(f)

Piece(fs, i) ==
  IF i \in DOMAIN fs THEN Sent(IF i = 1 THEN Open ELSE Comma, fs[i]) ELSE <<>>

\* At most three fields are ever needed to mislead the search.
Render(fs) == Piece(fs, 1) \o Piece(fs, 2) \o Piece(fs, 3) \o <<Close>>

\* No string in the message but a key is the word itself, and one key at most.
Plain(fs) ==
  /\ \A i \in DOMAIN fs : fs[i].quoted => fs[i].text # <<Word>>
  /\ \A i, j \in DOMAIN fs : fs[i].key = Word /\ fs[j].key = Word => i = j

\* The command is found: a string that is not too long, in a field that is not
\* the last one, unless the name has a comma in it.
Found(fs, i) ==
  /\ fs[i].key = Word /\ fs[i].quoted
  /\ Len(fs[i].text) < COMMAND_MAX_LEN
  /\ i < Len(fs) \/ \E k \in DOMAIN fs[i].text : fs[i].text[k] = Comma
=============================================================================
