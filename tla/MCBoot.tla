------------------------------- MODULE MCBoot -------------------------------
(* Boot and console, and system calls, on small instances: screens of a    *)
(* few cells, four-bit numbers, a table of eight entries and six-bit ints. *)
EXTENDS Boot, TLC

DigitChars == Range(Digits(FALSE)) \cup Range(Digits(TRUE))
Messages == {"M booting", "M dana", "M hhdm", "M screen", "M memmap", "M table", "M tables",
             "M pmm", "M pmap", "M vm", "M task", "M complete", "M exec"}
AllPrintable == DigitChars \cup Messages \cup Errors \cup {"?", "%", "-", "(null)", " ", "q", "x"}
SmallScreens == {<<1, 2>>, <<3, 2>>}
TabText == {<<"q", "\t", "q">>, <<"%", "BS", "nul", "\r">>}
SomeNumerals == {-1}
SomePrints == {<<"d", -8>>, <<"li", 0>>, <<"x", 0>>, <<"p", -1>>, <<"X", -2>>, <<"lX", 5>>, <<"s", "x">>, <<"s null", 0>>, <<"q", 0>>}
SomeNumbers == {-1, 8, 65}
=============================================================================
