---------------------------- MODULE MCConfigFile ----------------------------
(***************************************************************************)
(* TLC instance of ConfigFile: the configuration file sets the multiplier, *)
(* a size and a voltage; the chip file sets timings of which one begins    *)
(* with the name of another; both have comments that hold a keyword, lines *)
(* without a number, and words that are no keyword or only begin one.      *)
(***************************************************************************)
EXTENDS ConfigFile

RowCycle   == <<"T_", "R", "C">>
RowToCol   == <<"T_", "R", "C", "D">>
Rows       == <<"NUM_", "R", "OWS">>

Setting(k, n) == <<Word(k), Number(n)>>

Comment == Word(<<"//">>)

CommonLines == {<<>>, <<Word(<<"//">> \o RowCycle), Number(9)>>}

MCConfigLines ==
    CommonLines \cup
    {Setting(Multiplier, 2), Setting(Multiplier, 3), Setting(Rows, 7),
     Setting(<<"VDD">>, 1) \o <<Comment, Word(Rows), Number(8)>>, <<Word(Rows)>>,
     Setting(<<"NUM_", "R">>, 5)}

MCChipLines ==
    CommonLines \cup
    {Setting(RowCycle, 4), Setting(RowToCol, 6),
     <<Word(RowCycle)>>, Setting(<<"CHIPS">>, 3)}
=============================================================================
