----------------------------- MODULE JobCommand -----------------------------
(***************************************************************************)
(* From the command portion of a crontab line to what systemd runs: the    *)
(* words it is cut into, the percent that ends it, the script or program   *)
(* that ExecStart= names, the standard input, written through the encoder  *)
(* of Base64, and the label of the job (CRON_JOB) in the journal.          *)
(*                                                                         *)
(* The words are views into the line, and the standard input is a view     *)
(* from the percent to the line's end: both are positions here.            *)
(***************************************************************************)
EXTENDS Base64, SequencesExt

CONSTANTS
    Texts       \* the command portions considered: no blank at either end

VARIABLES
    text,       \* the command portion, a sequence of Chars
    nopercent,  \* the line is from /etc/anacrontab
    file,       \* the one-word command names a regular file
    pc,         \* how far the job is
    words,      \* the views [b, e] of this->command
    input,      \* this->input_data: the view [b, e]
    exec,       \* ExecStart=: the shell on the script, or the program itself
    label,      \* the LogExtraFields= value
    segments    \* what the encoder has not been fed yet

vars == <<text, nopercent, file, pc, words, input, exec, label, segments, b64vars>>

\* A plain character, the blank, and those that mean something.
Blank == " "
Code  == [c \in {"?", Blank, "%", "\\", "\"", "\n"} |->
            CASE c = "?" -> 63 [] c = Blank -> 32 [] c = "%" -> 37 [] c = "\\" -> 92
              [] c = "\"" -> 34 [] c = "\n" -> 10]
Chars == DOMAIN Code

\* What parse_crontab leaves of a line once its fields are taken.
ASSUME TextsAssumption ==
    \A t \in Texts : t \in Seq(Chars \ {"\n"}) /\ t # <<>> /\ t[1] # Blank /\ t[Len(t)] # Blank

View(v)   == SubSeq(text, v.b, v.e)
Nothing   == [b |-> 1, e |-> 0]
NoExec    == [shell |-> FALSE, what |-> <<>>]

-----------------------------------------------------------------------------
(* Job::Job and parse_percent *)

\* soft_tokenise: runs of blanks separate, and make no empty word; the word
\* that ends at e begins after the blank before it.
Begin(s, e) == CHOOSE b \in 1 .. e : (b = 1 \/ s[b - 1] = Blank) /\ \A k \in b .. e : s[k] # Blank

Tokens(s) ==
    FlattenSeq([e \in DOMAIN s |->
        IF s[e] # Blank /\ (e = Len(s) \/ s[e + 1] = Blank) THEN <<[b |-> Begin(s, e), e |-> e]>> ELSE <<>>])

\* Slip: a backslash at any earlier place escapes.
Unescaped_Anywhere(v, i) == text[i] = "%" /\ \A k \in v.b .. i - 1 : text[k] # "\\"

\* A percent that is the first of its word, or not after a backslash.
Unescaped(v, i) == text[i] = "%" /\ (i = v.b \/ text[i - 1] # "\\")

Holds(v, i) == v.b <= i /\ i <= v.e

Percents == {i \in DOMAIN text : \E n \in DOMAIN Tokens(text) :
               Holds(Tokens(text)[n], i) /\ Unescaped(Tokens(text)[n], i)}
First    == CHOOSE i \in Percents : \A k \in Percents : i <= k

\* The word that holds the first percent is cut, and is the last.
CutWords ==
    LET N == CHOOSE n \in DOMAIN Tokens(text) : Holds(Tokens(text)[n], First)
    IN  [n \in 1 .. N |-> IF n = N THEN [b |-> Tokens(text)[n].b, e |-> First - 1] ELSE Tokens(text)[n]]

Parse ==
    /\ pc = "read"
    /\ IF nopercent \/ Percents = {}
       THEN words' = Tokens(text) /\ input' = Nothing
       ELSE words' = CutWords /\ input' = [b |-> First + 1, e |-> Len(text)]
    /\ pc' = "parsed"
    /\ UNCHANGED <<text, nopercent, file, exec, label, segments, b64vars>>

-----------------------------------------------------------------------------
(* debackslashpercentise: the segments between "\%", and a literal percent *)
(* for each.                                                               *)

Escapes(s) == {i \in DOMAIN s : i < Len(s) /\ s[i] = "\\" /\ s[i + 1] = "%"}

Segments[s \in Seq(Chars)] ==
    IF s = <<>> THEN <<>>
    ELSE IF Escapes(s) = {} THEN <<[what |-> s, raw |-> TRUE]>>
    ELSE LET i == CHOOSE i \in Escapes(s) : \A k \in Escapes(s) : i <= k
         IN  <<[what |-> SubSeq(s, 1, i - 1), raw |-> TRUE], [what |-> <<"%">>, raw |-> FALSE]>>
               \o Segments[SubSeq(s, i + 2, Len(s))]

Debackslashpercentise(s) == IF nopercent THEN <<[what |-> s, raw |-> FALSE]>> ELSE Segments[s]

Flat(segs) == FlattenSeq([n \in DOMAIN segs |-> segs[n].what])

-----------------------------------------------------------------------------
(* output(): generate_scriptlet, then generate_service *)

\* The words that are not empty, one blank between them.
Script ==
    LET Empty(n) == words[n].b > words[n].e
    IN  FlattenSeq([n \in DOMAIN words |->
            IF Empty(n) THEN <<>>
            ELSE (IF \E m \in 1 .. n - 1 : ~Empty(m) THEN <<Blank>> ELSE <<>>)
                 \o Flat(Debackslashpercentise(View(words[n])))])

Output ==
    /\ pc = "parsed"
    /\ exec' = IF Len(words) = 1 /\ View(words[1]) # <<>> /\ file
               THEN [shell |-> FALSE, what |-> Flat(Debackslashpercentise(View(words[1])))]
               ELSE [shell |-> TRUE, what |-> Script]
    /\ pc' = "output"
    /\ UNCHANGED <<text, nopercent, file, words, input, label, segments, b64vars>>

\* Slip: the percents are doubled only in the description.
Describe_Raw(s) == s

\* describe_line: % is special to systemd, %% is literal.
Describe(s) == FlattenSeq([i \in DOMAIN s |-> IF s[i] = "%" THEN <<"%", "%">> ELSE <<s[i]>>])

\* Quoted: backslashes and quotes escaped.
Escape(s) == FlattenSeq([i \in DOMAIN s |-> IF s[i] \in {"\\", "\""} THEN <<"\\", s[i]>> ELSE <<s[i]>>])

\* Slip: a percent that was escaped becomes a new-line as well.
Feedable_All(seg) == [i \in DOMAIN seg.what |-> IF seg.what[i] = "%" THEN "\n" ELSE seg.what[i]]

\* A raw segment is fed with each percent as a new-line.
Feedable(seg) ==
    [i \in DOMAIN seg.what |-> IF seg.raw /\ seg.what[i] = "%" THEN "\n" ELSE seg.what[i]]

Service ==
    /\ pc = "output"
    /\ label' = Escape(Describe(text))
    /\ IF View(input) = <<>> THEN pc' = "done" /\ segments' = <<>>
       ELSE pc' = "data" /\ segments' = Debackslashpercentise(View(input))
    /\ UNCHANGED <<text, nopercent, file, words, input, exec, b64vars>>

jobvars == <<text, nopercent, file, words, input, exec, label>>

FeedSegment ==
    /\ pc = "data" /\ segments # <<>> /\ Idle
    /\ todo' = [i \in DOMAIN Head(segments).what |-> Code[Feedable(Head(segments))[i]]]
    /\ segments' = Tail(segments)
    /\ Feed
    /\ UNCHANGED <<jobvars, pc>>

Encode == (Take \/ Put) /\ UNCHANGED <<jobvars, pc, segments>>

FinishData ==
    /\ pc = "data" /\ segments = <<>> /\ Finish
    /\ pc' = "done"
    /\ UNCHANGED <<jobvars, segments>>

Init ==
    /\ text \in Texts /\ nopercent \in BOOLEAN /\ file \in BOOLEAN
    /\ pc = "read" /\ words = <<>> /\ input = Nothing /\ exec = NoExec /\ label = <<>>
    /\ segments = <<>>
    /\ B64Init

Next == Parse \/ Output \/ Service \/ FeedSegment \/ Encode \/ FinishData

Spec == Init /\ [][Next]_vars

-----------------------------------------------------------------------------
(* What crontab(5) says, one character after the other *)

\* The position of the first percent of s that no backslash precedes, or 0.
FirstPercent(s) ==
    LET P == {i \in DOMAIN s : s[i] = "%" /\ ~(i > 1 /\ s[i - 1] = "\\")}
    IN  IF P = {} THEN 0 ELSE CHOOSE i \in P : \A k \in P : i <= k

\* The character at i of s, with "\%" read as a percent and any other percent as
\* `pct`.
Read(s, i, pct) ==
    IF s[i] = "\\" /\ i < Len(s) /\ s[i + 1] = "%" THEN <<>>
    ELSE IF s[i] # "%" THEN <<s[i]>>
    ELSE IF i > 1 /\ s[i - 1] = "\\" THEN <<"%">> ELSE <<pct>>

Reads(s, pct) == FlattenSeq([i \in DOMAIN s |-> Read(s, i, pct)])

Split == ~nopercent /\ FirstPercent(text) # 0
StdinPart == IF Split THEN Reads(SubSeq(text, FirstPercent(text) + 1, Len(text)), "\n") ELSE <<>>

\* The part before that percent, and the command it is.
Kept        == IF Split THEN SubSeq(text, 1, FirstPercent(text) - 1) ELSE text
CommandText == IF nopercent THEN Kept ELSE Reads(Kept, "%")

\* The same, runs of blanks as one and none at the ends.
CommandPart ==
    LET s == Kept
        Between(i) == i < Len(s) /\ s[i + 1] # Blank /\ \E k \in 1 .. i : s[k] # Blank
    IN  FlattenSeq([i \in DOMAIN s |->
            IF s[i] = Blank THEN (IF Between(i) THEN <<Blank>> ELSE <<>>)
            ELSE IF nopercent THEN <<s[i]>> ELSE Read(s, i, "%")])

-----------------------------------------------------------------------------
(* systemd's side *)

\* What a character of StandardInputData= stands for: a digit, the padding, or -1 for
\* one that the decoder does not know.  '+' and '/' are base64's; later versions of
\* systemd take '-' and '_' as well, earlier ones do not.
Six(c, urlsafe) ==
    CASE c >= 65 /\ c <= 90  -> c - 65
      [] c >= 97 /\ c <= 122 -> c - 71
      [] c >= 48 /\ c <= 57  -> c + 4
      [] c = 43              -> 62
      [] c = 47              -> 63
      [] c = 45 /\ urlsafe   -> 62
      [] c = 95 /\ urlsafe   -> 63
      [] c = 61              -> Pad
      [] OTHER               -> -1

Sextets(t, urlsafe) == [i \in DOMAIN t |-> Six(t[i], urlsafe)]

\* The setting is ignored: the job has nothing to read.
Refuses(t, urlsafe) == \E i \in DOMAIN t : Six(t[i], urlsafe) = -1

\* A base64 text without its padding, and the bytes it stands for: four digits
\* are three bytes.
Unpadded(d) ==
    SubSeq(d, 1, CHOOSE n \in 0 .. Len(d) : (n = 0 \/ d[n] # Pad) /\ \A k \in n + 1 .. Len(d) : d[k] = Pad)
Bytes(d) ==
    [k \in 1 .. (Len(d) * 6) \div 8 |->
        LET n == 4 * ((k - 1) \div 3)
        IN  CASE k % 3 = 1 -> d[n + 1] * 4 + d[n + 2] \div 16
              [] k % 3 = 2 -> (d[n + 2] % 16) * 16 + d[n + 3] \div 4
              [] k % 3 = 0 -> (d[n + 3] % 4) * 64 + d[n + 4]]

\* A word in quotes: a backslash before a quote or a backslash goes.
Unquoted[s \in Seq(Chars)] ==
    IF s = <<>> THEN <<>>
    ELSE IF Head(s) = "\\" THEN <<s[2]>> \o Unquoted[SubSeq(s, 3, Len(s))]
    ELSE <<Head(s)>> \o Unquoted[Tail(s)]

\* Specifiers: "%%" is a percent, and "%?" something else entirely, '?' being a
\* letter; a percent before anything else, or at the end, stays.
Specifier(s, i) == i < Len(s) /\ s[i] = "%" /\ s[i + 1] \in {"%", "?"}
Meaning(c)      == IF c = "%" THEN "%" ELSE "specifier"

Expanded[s \in Seq(Chars)] ==
    IF s = <<>> THEN <<>>
    ELSE IF Specifier(s, 1) THEN <<Meaning(s[2])>> \o Expanded[SubSeq(s, 3, Len(s))]
    ELSE <<Head(s)>> \o Expanded[Tail(s)]

\* What runs: the shell reads its script, but of a program named in ExecStart= the
\* specifiers are expanded.
Ran == IF exec.shell THEN exec.what ELSE Expanded[exec.what]

-----------------------------------------------------------------------------
\* The job reads on its standard input what follows the first percent that is
\* not escaped, each further one a new-line and "\%" a percent (crontab(5)):
\* parse_percent, the segments of debackslashpercentise and the encoder, end
\* to end, against a reading of the text character by character.  Not so where the
\* decoder knows base64's own alphabet only and some third byte ends in six ones, as
\* the '?' of "cat%ab?" does: the digit for them is written '_', and the decoder
\* refuses all of it.
StdinAsDocumented ==
    pc = "done" => \A urlsafe \in BOOLEAN :
        /\ Refuses(Text, urlsafe) <=> ~urlsafe /\ \E k \in DOMAIN StdinPart : k % 3 = 0 /\ StdinPart[k] = "?"
        /\ ~Refuses(Text, urlsafe) =>
               Bytes(Unpadded(Sextets(Text, urlsafe))) = [i \in DOMAIN StdinPart |-> Code[StdinPart[i]]]

\* What runs is "the entire command portion of the line", up to that percent
\* (crontab(5)), with two exceptions.  The script is the words with one blank between
\* them, so that of several blanks in a row, quoted or not, one is left, and of those
\* at the end none.  And of a word that names a file and is run without a shell,
\* systemd expands the percents: for "/etc/a\%b" it runs another program.
RunsCommandPart ==
    pc = "done" =>
        /\ exec.what = CommandPart
        /\ Ran = CommandText <=>
               /\ \A i \in DOMAIN Kept : Kept[i] = Blank => i < Len(Kept) /\ Kept[i + 1] # Blank
               /\ exec.shell \/ \A i \in DOMAIN exec.what : ~Specifier(exec.what, i)

\* The journal's label of the job, by which its mail is titled, is the line as
\* it was written, once systemd has taken the quoting and the specifiers away.
LabelAsWritten == pc = "done" => Expanded[Unquoted[label]] = text
=============================================================================
