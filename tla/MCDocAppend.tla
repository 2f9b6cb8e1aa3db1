------------------------------ MODULE MCDocAppend ------------------------------
EXTENDS DocAppend

\* A heading and a line with a bold end; a wide character before a heading.
MCTexts ==
    [c \in Calls |->
       IF c = "notes"
       THEN <<[heading |-> TRUE, widths |-> <<1>>, bold |-> 0],
              [heading |-> FALSE, widths |-> <<1, 1>>, bold |-> 1]>>
       ELSE <<[heading |-> FALSE, widths |-> <<2>>, bold |-> 0],
              [heading |-> TRUE, widths |-> <<1>>, bold |-> 1]>>]
===============================================================================
