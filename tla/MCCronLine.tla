----------------------------- MODULE MCCronLine -----------------------------
(* Lines that vary one or two fields at a time, with every number the field *)
(* admits and some it does not; days around the ends of months of every     *)
(* length, on every day of the week.  Every keyword with every kind of      *)
(* setting, every number of days up to 400, and the directories of scripts. *)
EXTENDS CronLine

Range(a, b, k) == [op |-> "-", lo |-> Num(a), hi |-> Num(b), step |-> k]
Any(k)         == [op |-> "*", lo |-> Empty, hi |-> Empty, step |-> k]
Tilde(a, b)    == [op |-> "~", lo |-> a, hi |-> b, step |-> 1]
Named(n)       == [op |-> "one", lo |-> Name(n), hi |-> Name(n), step |-> 1]
Text(e)        == [op |-> "one", lo |-> e, hi |-> e, step |-> 1]
Commas         == List({})

Midnight == [minute |-> List({Only(0)}), hour |-> List({Only(0)}), day |-> Star,
             month |-> Star, dow |-> Star, persistent |-> TRUE]

MinuteLines == {[Midnight EXCEPT !.minute = List(s)] :
                  s \in {{Range(a, b, k)} : a \in {0, 1, 30, 58}, b \in {0, 29, 59, 60, 70}, k \in {1, 2, 7, 70}}
                   \cup {{Any(k)} : k \in {1, 20, 70}} \cup {{Only(a), Range(50, 60, 4)} : a \in 0 .. 61}
                   \cup {{Tilde(Num(50), Empty), Only(5)}, {Tilde(Empty, Empty)}, {}}
                   \cup {{Text(e), Only(5)} : e \in {Empty, Letters, Trailed(5), Minus}}
                   \cup {{Tilde(Num(0), Num(30))}, {Tilde(Num(55), Num(70))}, {Tilde(Num(30), Num(10))},
                         {Tilde(Num(5), Num(4))}, {Tilde(Empty, Num(3))}, {Any(Misspelt)}, {Range(1, 5, Misspelt)},
                         {[Tilde(Num(1), Num(5)) EXCEPT !.step = Misspelt]}}
                   \cup {{Tilde(e, Num(3))} : e \in {Letters, Trailed(2), Minus}}
                   \cup {{Tilde(Num(1), e)} : e \in {Letters, Trailed(2), Minus}}}

HourLines == {[Midnight EXCEPT !.hour = List(s)] :
                  s \in {{Range(8, 11, 1)}, {Range(0, 23, 2)}, {Any(2)}, {Only(24)}, {Only(23), Any(5)}, {}}}

DayValues == {Star, LastDay} \cup
             {List(s) : s \in {{Only(0)}, {Only(1), Only(15)}, {Only(31)}, {Range(8, 14, 1)}, {Range(20, 40, 3)},
                               {Range(5, 3, 1)}, {Any(2)}, {Tilde(Num(28), Empty)}, {Tilde(Empty, Empty)}, {Tilde(Num(1), Letters)},
                               {Tilde(Trailed(5), Num(7))}, {}}}

DowValues == {Star, LastDow(Only(5)), LastDow(Only(7))} \cup
             {List(s) : s \in {{Only(a)} : a \in 0 .. 8} \cup {{Range(1, 5, 1)}, {Range(5, 7, 1)}, {Range(0, 7, 2)},
                               {Named(1)}, {Named(6), Only(7)}, {Any(3)}, {Tilde(Empty, Empty)}, {Tilde(Num(3), Num(6))}, {Tilde(Num(3), Num(7))}, {Named(0)}, {Text(Letters)}, {}}}

MonthValues == {Star, List({Only(2)}), List({Range(1, 12, 5)}), List({Only(13)}), List({Tilde(Num(10), Empty)}), List({Named(1)}), Commas}

DayLines == {[Midnight EXCEPT !.day = d, !.dow = w, !.month = m] :
                 d \in DayValues, w \in DowValues, m \in MonthValues}

\* Skips at the ends of size_t, and at the width of a value.
SkipLines == {[Midnight EXCEPT !.minute = List({Any(k)})] : k \in {0, 256, Word \div 2 - 1, Word \div 2, Word - 1}}
               \cup {[Midnight EXCEPT !.minute = List({Range(5, b, k)})] : b \in {5, 9}, k \in {0, 2, Word - 2}}

MCLines == MinuteLines \cup HourLines \cup DayLines \cup SkipLines
             \cup {[l EXCEPT !.persistent = FALSE] : l \in HourLines}

Line(source, period, delay, DELAY, hours, distro) ==
    [source |-> source, period |-> period, delay |-> delay, DELAY |-> DELAY,
     START_HOURS_RANGE |-> hours, distro |-> distro]
NoDistro == [nth |-> 0, hour |-> 0]

MCKeywords == P!Keywords \cup {"reboot", "boot", "anually", "biannually", "bi-annually", "semiannually", "", "fortnightly"}
MCNumbers  == {P!Digits(n) : n \in {0, 1, 59, 60, 90}} \cup {P!Trailed(5), P!Letters, P!Blank, P!Unset}

MCAtLines == {Line("crontab", p, P!Unset, d, h, NoDistro) :
                p \in {P!W(w) : w \in MCKeywords} \cup {P!EveryDays(n) : n \in {0, 1, 5, 7, 31}},
                d \in MCNumbers, h \in {P!Unset, P!Digits(3), P!Digits(23), P!Digits(24), P!Trailed(8)}}
MCAnacronLines == {Line("anacrontab", P!EveryDays(n), d, P!Digits(7), h, NoDistro) :
                     n \in 0 .. 400, d \in {P!Digits(0), P!Digits(15), P!Letters}, h \in {P!Unset, P!Digits(3)}}
                  \cup {Line("anacrontab", P!W(w), P!Digits(15), P!Digits(7), P!Unset, NoDistro) : w \in P!Keywords}
MCPartLines == {Line("parts", P!W(w[1]), P!Unset, d, P!Digits(9), [nth |-> w[2], hour |-> h]) :
                  w \in {<<"hourly", 1>>, <<"daily", 2>>, <<"weekly", 3>>, <<"monthly", 4>>, <<"yearly", 5>>},
                  d \in {P!Unset, P!Digits(90)}, h \in {0, 6}}

MCPeriodLines == MCAtLines \cup MCAnacronLines \cup MCPartLines

Length == [m \in 1 .. 12 |-> CASE m = 2 -> 28 [] m \in {4, 6, 9, 11} -> 30 [] OTHER -> 31]

MCDays == {[month |-> m, dom |-> n, dow |-> w, len |-> Length[m]] :
             m \in {1, 2, 11}, n \in {1, 2, 8, 15, 21, 22, 24, 25, 28}, w \in 0 .. 6}
          \cup {[month |-> m, dom |-> Length[m], dow |-> w, len |-> Length[m]] : m \in {1, 11}, w \in 0 .. 6}
=============================================================================
