------------------------------ MODULE ConfigFile ------------------------------
(***************************************************************************)
(* read_config_file: the loop that takes a file apart into words and       *)
(* numbers, twice, as main calls it: for the configuration file and then   *)
(* for the file with the parameters of the DRAM chips (.vi).               *)
(*                                                                         *)
(* A file is a sequence of items: words, numbers and ends of lines.  A     *)
(* word is a sequence of fragments, cut where two keywords part, so that   *)
(* a word is the beginning of another exactly if its fragments are.  Words *)
(* have more than one character and numbers are whole.                     *)
(***************************************************************************)
EXTENDS Integers, Sequences, SequencesExt, FiniteSetsExt

CONSTANTS
    ConfigLines, ChipLines,   \* the lines the two files are made of
    MAX_LINES,                \* a bound on the lines of a file
    Numbers                   \* what input_int and input_float may start as

VARIABLES
    lines,          \* lines[f]: what is written in file f, once it is opened
    reading,        \* the file read_config_file is called for; 3: none
    rest,           \* what of that file has not been read
    input_string,   \* the word read last
    input,          \* input[format]: input_int and input_float
    settings        \* settings[k]: the global variable of keyword k

vars == <<lines, reading, rest, input_string, input, settings>>

-----------------------------------------------------------------------------
Word(w)   == [kind |-> "word", text |-> w]
Number(n) == [kind |-> "number", value |-> n]
EndOfLine == [kind |-> "end of line"]

\* A comment need not be parted from the word behind it.
IsComment(item) == item.kind = "word" /\ IsPrefix(<<"//">>, item.text)

Items == [kind : {"word"}, text : Seq(STRING)] \cup [kind : {"number"}, value : Int]

ASSUME FilesAssumption ==
    /\ \A L \in {ConfigLines, ChipLines} : \A line \in L : line \in Seq(Items)
    /\ MAX_LINES \in Nat

Multiplier == <<"PROCESSOR_CLK_MULTIPLIER">>

\* The keywords in the order in which tokenize asks for them.
Keywords == <<
    Multiplier, <<"ROBSIZE">>, <<"MAX_", "RETIRE">>, <<"MAX_", "FETCH">>,
    <<"PIPELINEDEPTH">>, <<"NUM_", "C", "HANNELS">>, <<"NUM_", "R", "ANKS">>,
    <<"NUM_", "BANKS">>, <<"NUM_", "R", "OWS">>, <<"NUM_", "C", "OLUMNS">>,
    <<"CACHE_LINE_SIZE">>, <<"ADDRESS_", "BITS">>, <<"DRAM_CLK_FREQUENCY">>,
    <<"T_", "R", "C">>, <<"T_", "R", "P">>, <<"T_", "C", "AS">>,
    <<"T_", "R", "C", "D">>, <<"T_", "R", "AS">>, <<"T_", "R", "RD">>,
    <<"T_", "FAW">>, <<"T_", "W", "R">>, <<"T_", "W", "TR">>,
    <<"T_", "R", "T", "P">>, <<"T_", "C", "CD">>, <<"T_", "R", "FC">>,
    <<"T_", "R", "EFI">>, <<"T_", "C", "WD">>, <<"T_", "R", "T", "RS">>,
    <<"T_", "PD_MIN">>, <<"T_", "XP">>, <<"T_", "XP", "_DLL">>,
    <<"T_", "DATA_TRANS">>, <<"VDD">>, <<"IDD", "0">>, <<"IDD", "2", "P", "0">>,
    <<"IDD", "2", "P", "1">>, <<"IDD", "2", "N">>, <<"IDD", "3", "P">>, <<"IDD", "3", "N">>,
    <<"IDD", "4", "R">>, <<"IDD", "4", "W">>, <<"IDD", "5">>, <<"WQ_", "CAPACITY">>,
    <<"ADDRESS_", "MAPPING">>, <<"WQ_", "LOOKUP_LATENCY">> >>

Settings == {Keywords[i] : i \in DOMAIN Keywords}

\* Given in DRAM cycles, kept in processor cycles.
IsTiming(k) == Head(k) = "T_"

Format(k) == IF Head(k) \in {"VDD", "IDD"} THEN "float" ELSE "int"

\* The keywords a word may stand for: those it is the beginning of.
Matching(item) ==
    {i \in DOMAIN Keywords : item.kind = "word" /\ IsPrefix(item.text, Keywords[i])}

\* Fault: the last keyword that matches is taken.
TokenLast(item) == Keywords[Max(Matching(item))]

\* tokenize, for a word that is no comment and not unknown
Token(item) == Keywords[Min(Matching(item))]

From(file, places) ==
    IF places = {} THEN <<>> ELSE SubSeq(file, Min(places), Len(file))

\* The conversions of fscanf skip the ends of lines before an item.
NextItem(file) == From(file, {i \in DOMAIN file : file[i] # EndOfLine})

SkipComment(file) ==
    LET line == From(file, {i \in DOMAIN file : file[i] = EndOfLine})
    IN  IF line = <<>> THEN <<>> ELSE Tail(line)

-----------------------------------------------------------------------------
Files(L) == UNION {[1..n -> L] : n \in 1..MAX_LINES}

\* A file with or without the end of its last line.
Written(file, ended) ==
    LET items == FlattenSeq([i \in DOMAIN file |-> file[i] \o <<EndOfLine>>])
    IN  IF ended THEN items ELSE Front(items)

Init ==
    /\ lines = <<>>
    /\ reading = 0
    /\ rest = <<>>
    /\ input_string = EndOfLine
    /\ input = [format \in {"int", "float"} |-> 0]
    /\ settings = [k \in Settings |-> 0]

\* main calls read_config_file for the next file, which may hold anything.  Its
\* first line holds a word: input_string is not read before it is written.
Open ==
    /\ reading < 2
    /\ rest = <<>>
    /\ reading' = reading + 1
    /\ \E file \in Files(IF reading = 0 THEN ConfigLines ELSE ChipLines),
          ended \in BOOLEAN :
          /\ file[1] # <<>>
          /\ lines' = Append(lines, file)
          /\ rest' = Written(file, ended)
    /\ input_string' = EndOfLine
    /\ \E n \in Numbers : input' = [format \in {"int", "float"} |-> n]
    /\ UNCHANGED settings

\* fscanf for a word: at the end of the file it fails and input_string keeps
\* the word before.
Current == LET file == NextItem(rest)
           IN  IF file = <<>> THEN input_string ELSE Head(file)

\* Fault: at the end of the file the last separator is not consumed.
AfterWordStuck == LET file == NextItem(rest)
                  IN  IF file = <<>> THEN rest ELSE Tail(file)

AfterWord == LET file == NextItem(rest)
             IN  IF file = <<>> THEN <<>> ELSE Tail(file)

ReadComment ==
    /\ IsComment(Current)
    /\ rest' = SkipComment(AfterWord)
    /\ UNCHANGED <<input, settings>>

\* "PANIC: bad token in cfg file" is printed, and reading goes on.
ReadUnknown ==
    /\ ~IsComment(Current) /\ Matching(Current) = {}
    /\ rest' = AfterWord
    /\ UNCHANGED <<input, settings>>

\* fscanf for a number: if none follows, the variable keeps the one before.
ReadSetting ==
    /\ ~IsComment(Current) /\ Matching(Current) # {}
    /\ LET k     == Token(Current)
           file  == NextItem(AfterWord)
           found == file # <<>> /\ Head(file).kind = "number"
       IN  /\ rest' = IF found THEN Tail(file) ELSE file
           /\ input' = IF found
                       THEN [input EXCEPT ![Format(k)] = Head(file).value]
                       ELSE input
           /\ settings' = [settings EXCEPT ![k] =
                  input'[Format(k)] * IF IsTiming(k) THEN settings[Multiplier]
                                                     ELSE 1]

\* one turn of the loop of read_config_file
Read ==
    /\ rest # <<>>
    /\ ReadComment \/ ReadUnknown \/ ReadSetting
    /\ input_string' = Current
    /\ UNCHANGED <<lines, reading>>

Next == Open \/ Read

\* Nothing but the files is waited for.
Spec == Init /\ [][Next]_vars /\ WF_vars(Next)

-----------------------------------------------------------------------------
(* Properties.                                                             *)

Finished == reading = 2 /\ rest = <<>>

IsSetting(line) == line # <<>> /\ ~IsComment(line[1])

Sets(line, k) == line # <<>> /\ line[1] = Word(k)

\* The last line that sets k, 0 if there is none.
LastLine(all, k) == Max({i \in DOMAIN all : Sets(all[i], k)} \cup {0})

\* Each setting is for a keyword and has its number on its line, and behind it
\* nothing but a comment; the multiplier is not set after the first timing.
WellFormed(all) ==
    \A i \in DOMAIN all : IsSetting(all[i]) =>
        LET line == all[i]
        IN  \E k \in Settings :
                /\ Sets(line, k)
                /\ Len(line) > 1 /\ line[2].kind = "number"
                /\ Len(line) > 2 => IsComment(line[3])
                /\ IsTiming(k) =>
                      \A j \in DOMAIN all : Sets(all[j], Multiplier) => j < i

\* After both files have been read, every parameter has the value of the last
\* line that names it, and the timings are in processor cycles; although a
\* keyword may begin with another one, comments hold keywords, and the last
\* word of a file is read twice if a line ends after it.
SettingsAreAsWritten ==
    LET all == lines[1] \o lines[2]
    IN  Finished /\ WellFormed(all) =>
            \A k \in Settings :
                LET last == LastLine(all, k)
                IN  settings[k] =
                        IF last = 0 THEN 0
                        ELSE all[last][2].value *
                                 IF IsTiming(k) THEN settings[Multiplier] ELSE 1

\* Reading ends, whatever the files hold: unknown words, settings without a
\* number, lines without an end, and, at the end of a file, two calls of fscanf
\* that fail.
ReaderEnds == <>[]Finished
=============================================================================
