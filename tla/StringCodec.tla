---------------------------------- MODULE StringCodec ----------------------------------
(*******************************************************************************)
(* The string tables of the two messages of a call.                             *)
(*                                                                              *)
(* A request: JClientSerializationStreamWriter quotes every string and ends it  *)
(* with a bar, JSERequestBuilder announces as many bytes as the text has        *)
(* characters and IOUtils.write sends it as UTF-8; the GWT servlet splits at    *)
(* the bars and undoes the quoting.                                             *)
(*                                                                              *)
(* A response: the servlet escapes every string to a JavaScript literal (by the *)
(* code that JClientSerializationStreamWriter repeats), and                      *)
(* JClientSerializationStreamReader first parses the answer into its tokens and  *)
(* then scans the string table, one character per iteration of its loops.       *)
(*                                                                              *)
(* A text is a sequence of characters, one representative for each class of     *)
(* characters that some branch of the code treats alike.  The digits of an      *)
(* escape (two or four) are one character: "1f", "2028" and "d800".             *)
(*******************************************************************************)
EXTENDS Integers, Sequences, SequencesExt

CONSTANT Tables     \* the string tables that are sent

\* "nul" is U+0000, "nl" a control character with a short escape, "ctl" U+001F, "acc" a
\* letter of two bytes in UTF-8, "uni" U+2028, "sur" a lone surrogate; "quote" and "comma"
\* are the marks of those names.
Special == {"nul", "nl", "ctl", "acc", "uni", "sur", "\\", "quote", "|", "comma", "[", "]"}
\* Letters that mean something after a backslash, and the digits of an escape
Letters == {"a", "0", "!", "n", "u", "x", "1f", "2028", "d800"}
Characters == Special \cup Letters

ASSUME TablesAssumption == \A t \in Tables : t \in Seq(Seq(Characters))

VARIABLES
    direction,      \* "request" or "response"
    strings,        \* the string table that is sent
    stage,          \* what is being done to the message
    text,           \* what is being read: the message, then its string table
    i,              \* position in text
    startNewString, \* deserializeStringTable: at the quote that opens a string
    token,          \* the text gathered so far
    results,        \* the tokens of the message
    stringTable     \* the strings read back

codecVars == <<direction, strings, stage, text, i, startNewString, token, results, stringTable>>

Digits == [ctl |-> "1f", uni |-> "2028", sur |-> "d800"]
\* The character that the digits of an escape stand for
FromDigits == [d \in {"1f", "2028", "d800"} |-> CHOOSE c \in DOMAIN Digits : Digits[c] = d]

--------------------------------------------------------------------------------
(* The two encodings                                                            *)

Payload == <<"0", "1f">>
Version == "1f"

\* quoteString: the character class of its regular expression holds U+0000, the bar
\* and U+D800 to U+FFFF.  The backslash before the bar only quotes the bar.
Quoted(c) ==
    CASE c = "nul" -> <<"\\", "0">>
      [] c = "|" -> <<"\\", "!">>
      [] c = "sur" -> <<"\\", "u", Digits[c]>>
      [] OTHER -> <<c>>

\* writeStringTable and writePayload, with a payload of one token.  The number of strings,
\* which is written first, is the length of `strings`.
Request(table) ==
    FlattenSeq([n \in DOMAIN table |->
        FlattenSeq([k \in DOMAIN table[n] |-> Quoted(table[n][k])]) \o <<"|">>])
      \o <<Payload[1], "|">>

\* The characters of more than one byte, which the announced length does not count
FitsAnnouncedLength(msg) == \A k \in DOMAIN msg : msg[k] \notin {"acc", "uni"}

\* needsUnicodeEscape, unicodeEscape
Escaped(c) ==
    CASE c = "nul" -> <<"\\", "0">>
      [] c = "nl" -> <<"\\", "n">>
      [] c \in {"\\", "quote"} -> <<"\\", c>>
      [] c = "ctl" -> <<"\\", "x", Digits[c]>>
      [] c \in {"uni", "sur"} -> <<"\\", "u", Digits[c]>>
      [] OTHER -> <<c>>

EscapeString(str) ==
    <<"quote">> \o FlattenSeq([k \in DOMAIN str |-> Escaped(str[k])]) \o <<"quote">>

\* [payload,["a","b"],flags,version], with a payload of two tokens
Response(table) ==
    <<"[", Payload[1], "comma", Payload[2], "comma", "[">>
      \o FlattenSeq([n \in DOMAIN table |->
             (IF n = 1 THEN <<>> ELSE <<"comma">>) \o EscapeString(table[n])])
      \o <<"]", "comma", "0", "comma", Version, "]">>

--------------------------------------------------------------------------------
CodecInit ==
    /\ direction \in {"request", "response"}
    /\ strings \in Tables
    /\ stage = "sending"
    /\ text = <<>> /\ i = 1 /\ startNewString = TRUE
    /\ token = <<>> /\ results = <<>> /\ stringTable = <<>>

Reading(s) == stage = s /\ i <= Len(text)
ReadAll(s) == stage = s /\ i > Len(text)
\* One character, or n, read and `more` gathered
Gather(n, more) ==
    /\ i' = i + n
    /\ token' = token \o more
    /\ UNCHANGED <<direction, strings, stage, text, startNewString, results, stringTable>>

--------------------------------------------------------------------------------
(* A request                                                                    *)

\* Mutant: the length is announced in bytes
SendRequestBytes ==
    /\ stage = "sending" /\ direction = "request"
    /\ stage' = "serving" /\ text' = Request(strings)
    /\ UNCHANGED <<direction, strings, i, startNewString, token, results, stringTable>>

\* The output stream refuses a body longer than the announced length, and the call ends
\* with an error.
SendRequest ==
    /\ stage = "sending" /\ direction = "request"
    /\ LET msg == Request(strings)
       IN IF FitsAnnouncedLength(msg)
            THEN stage' = "serving" /\ text' = msg
            ELSE stage' = "unsent" /\ UNCHANGED text
    /\ UNCHANGED <<direction, strings, i, startNewString, token, results, stringTable>>

ServesString == Reading("serving") /\ Len(stringTable) < Len(strings)

ServerEndsString ==
    /\ ServesString /\ text[i] = "|"
    /\ stringTable' = Append(stringTable, token)
    /\ token' = <<>> /\ i' = i + 1
    /\ UNCHANGED <<direction, strings, stage, text, startNewString, results>>

ServerCopies ==
    /\ ServesString /\ text[i] \notin {"|", "\\"}
    /\ Gather(1, <<text[i]>>)

\* What may follow a backslash: how many characters it takes and what it stands for
FollowsBackslash(n) ==
    CASE text[n] = "0" -> <<"nul">>
      [] text[n] = "!" -> <<"|">>
      [] text[n] = "\\" -> <<"\\">>
      [] text[n] = "u" /\ text[n + 1] \in {"2028", "d800"} -> <<FromDigits[text[n + 1]]>>
      [] OTHER -> <<>>

ServerUnquotes ==
    /\ ServesString /\ text[i] = "\\"
    /\ LET c == FollowsBackslash(i + 1)
       IN IF c # <<>>
            THEN Gather(IF text[i + 1] = "u" THEN 3 ELSE 2, c)
            ELSE /\ stage' = "rejected"
                 /\ UNCHANGED <<direction, strings, text, i, startNewString, token, results,
                                stringTable>>

\* What is left is the payload.
ServerDone ==
    /\ stage = "serving" /\ Len(stringTable) = Len(strings)
    /\ stage' = "read"
    /\ results' = <<SubSeq(text, i, Len(text))>>
    /\ UNCHANGED <<direction, strings, text, i, startNewString, token, stringTable>>

--------------------------------------------------------------------------------
(* A response                                                                   *)

\* prepareToRead hands the answer to parse, which drops the outer brackets.
SendResponse ==
    /\ stage = "sending" /\ direction = "response"
    /\ LET msg == Response(strings)
       IN text' = SubSeq(msg, 2, Len(msg) - 1)
    /\ stage' = "parsing"
    /\ UNCHANGED <<direction, strings, i, startNewString, token, results, stringTable>>

ParseComma ==
    /\ Reading("parsing") /\ text[i] = "comma"
    /\ results' = Append(results, token)
    /\ token' = <<>> /\ i' = i + 1
    /\ UNCHANGED <<direction, strings, stage, text, startNewString, stringTable>>

\* Mutant: indexOf in the place of lastIndexOf
ParseTableFirst ==
    /\ Reading("parsing") /\ text[i] = "["
    /\ LET pos == SelectInSeq(text, LAMBDA c : c = "]")
       IN /\ results' = Append(results, SubSeq(text, i + 1, pos - 1))
          /\ i' = pos + 2
    /\ UNCHANGED <<direction, strings, stage, text, startNewString, token, stringTable>>

\* lastIndexOf: the table ends at the last bracket of the answer, and the comma after it
\* is skipped.
ParseTable ==
    /\ Reading("parsing") /\ text[i] = "["
    /\ LET pos == SelectLastInSeq(text, LAMBDA c : c = "]")
       IN /\ results' = Append(results, SubSeq(text, i + 1, pos - 1))
          /\ i' = pos + 2
    /\ UNCHANGED <<direction, strings, stage, text, startNewString, token, stringTable>>

ParseCharacter ==
    /\ Reading("parsing") /\ text[i] \notin {"comma", "["}
    /\ Gather(1, <<text[i]>>)

\* The end of parse, and of prepareToRead: the tokens are read backwards, the version
\* first, then the flags, then the string table.
ParseEnd ==
    /\ ReadAll("parsing")
    /\ LET all == IF token = <<>> THEN results ELSE Append(results, token)
       IN /\ results' = SubSeq(all, 1, Len(all) - 3)
          /\ IF all[Len(all)] = <<Version>>
               THEN stage' = "scanning" /\ text' = all[Len(all) - 2]
               ELSE stage' = "incompatible" /\ UNCHANGED text
    /\ i' = 1 /\ token' = <<>>
    /\ UNCHANGED <<direction, strings, startNewString, stringTable>>

\* deserializeStringTable, an iteration: the quote that opens a string,
OpenQuote ==
    /\ Reading("scanning") /\ startNewString
    /\ startNewString' = FALSE /\ i' = i + 1
    /\ UNCHANGED <<direction, strings, stage, text, token, results, stringTable>>

\* Mutant: the gathered text is not cleared
CloseQuoteKeeps ==
    /\ Reading("scanning") /\ ~startNewString /\ text[i] = "quote"
    /\ stringTable' = Append(stringTable, token)
    /\ startNewString' = TRUE
    /\ i' = IF i # Len(text) THEN i + 2 ELSE i + 1
    /\ UNCHANGED <<direction, strings, stage, text, results, token>>

\* the quote that closes it, with the comma after it,
CloseQuote ==
    /\ Reading("scanning") /\ ~startNewString /\ text[i] = "quote"
    /\ stringTable' = Append(stringTable, token)
    /\ token' = <<>> /\ startNewString' = TRUE
    /\ i' = IF i # Len(text) THEN i + 2 ELSE i + 1
    /\ UNCHANGED <<direction, strings, stage, text, results>>

\* an escape, whose backslash is dropped with a letter that nobody knows,
Unescaped(n) ==
    CASE text[n] = "0" -> <<"nul">>
      [] text[n] = "n" -> <<"nl">>
      [] text[n] \in {"quote", "\\"} -> <<text[n]>>
      [] text[n] \in {"x", "u"} -> <<FromDigits[text[n + 1]]>>
      [] OTHER -> <<>>

Unescape ==
    /\ Reading("scanning") /\ ~startNewString /\ text[i] = "\\"
    /\ Gather(IF text[i + 1] \in {"x", "u"} THEN 3 ELSE 2, Unescaped(i + 1))

\* and any other character.
CopyCharacter ==
    /\ Reading("scanning") /\ ~startNewString /\ text[i] \notin {"quote", "\\"}
    /\ Gather(1, <<text[i]>>)

ScanEnd ==
    /\ ReadAll("scanning") /\ stage' = "read"
    /\ UNCHANGED <<direction, strings, text, i, startNewString, token, results, stringTable>>

--------------------------------------------------------------------------------
Ends == {"read", "unsent", "rejected", "incompatible"}
Over == stage \in Ends
CodecFinished == Over /\ UNCHANGED codecVars

CodecNext ==
    \/ SendRequest \/ ServerEndsString \/ ServerCopies \/ ServerUnquotes \/ ServerDone
    \/ SendResponse \/ ParseComma \/ ParseTable \/ ParseCharacter \/ ParseEnd
    \/ OpenQuote \/ CloseQuote \/ Unescape \/ CopyCharacter \/ ScanEnd
    \/ CodecFinished

CodecSpec == CodecInit /\ [][CodecNext]_codecVars

--------------------------------------------------------------------------------
\* The variables stay within their types.
CodecTypeOK ==
    /\ direction \in {"request", "response"} /\ strings \in Seq(Seq(Characters))
    /\ stage \in {"sending", "serving", "parsing", "scanning"} \cup Ends
    /\ text \in Seq(Characters) /\ token \in Seq(Characters)
    /\ i \in 1 .. Len(text) + (IF stage = "parsing" THEN 2 ELSE 1)
    /\ startNewString \in BOOLEAN
    /\ results \in Seq(Seq(Characters)) /\ stringTable \in Seq(Seq(Characters))

\* The scan stays within its types and the text, and what has been read of a response is
\* a beginning of what was sent, between any two iterations: no character of one string
\* is taken for a delimiter, an escape or a character of the next, brackets and quotes
\* included.
ScanFollowsTable ==
    /\ CodecTypeOK
    /\ stage = "scanning" =>
         /\ IsPrefix(stringTable, strings)
         /\ ~startNewString => /\ Len(stringTable) < Len(strings)
                               /\ IsPrefix(token, strings[Len(stringTable) + 1])

\* A response is always read, and its strings and payload are the ones sent.
ResponseReadBack ==
    direction = "response" /\ Over =>
        stage = "read" /\ stringTable = strings /\ results = [k \in 1 .. 2 |-> <<Payload[k]>>]

Contain(table, chars) ==
    \E n \in DOMAIN table : \E k \in DOMAIN table[n] : table[n][k] \in chars

\* A request is not sent exactly when a character takes more bytes than it is announced
\* with; without such a character and without backslashes its strings arrive as they are.
\* Whatever the server makes of a string, the strings after it and the payload stay where
\* they are: a string can damage itself only.
RequestReadBack ==
    direction = "request" /\ Over =>
        /\ stage = "unsent" <=> Contain(strings, {"acc", "uni"})
        /\ ~Contain(strings, {"acc", "uni", "\\"}) => stage = "read" /\ stringTable = strings
        /\ stage = "read" =>
             /\ results = <<<<Payload[1], "|">>>>
             /\ \A n \in DOMAIN strings :
                  ~Contain(<<strings[n]>>, {"\\"}) => stringTable[n] = strings[n]
================================================================================
