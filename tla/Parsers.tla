------------------------------- MODULE Parsers -------------------------------
(***************************************************************************)
(* How the target's handlers cut the output of a command into records.     *)
(* Output is a sequence of lines; of a line only what the parser looks at  *)
(* is kept: whether it starts a record, how many fields it has, and        *)
(* whether it is longer than bufio.Scanner takes, which ends the scan.     *)
(***************************************************************************)
EXTENDS Naturals, Sequences, FiniteSets

Good(v)    == [ok |-> TRUE, recs |-> v]       \* what a parser returns
Unparsable == [ok |-> FALSE, recs |-> <<>>]

\* The lines a scanner gives, and whether scanner.Err tells of more.
Cut(lines)     == \E i \in DOMAIN lines : lines[i] = "long"
Scanned(lines) ==
    LET n == CHOOSE n \in 0..Len(lines) :
                 /\ \A i \in 1..n : lines[i] # "long"
                 /\ n < Len(lines) => lines[n + 1] = "long"
    IN SubSeq(lines, 1, n)

\* Sum of the first n elements of a sequence of numbers.
Total(s, n) == LET sum[i \in 0..n] == IF i = 0 THEN 0 ELSE sum[i - 1] + s[i] IN sum[n]

(***************************************************************************)
(* pstack, jstack and yum repoinfo: a "head" line starts a record, which   *)
(* is stored when the next one starts and once more at the end of output.  *)
(* Result: the records, each as its number of lines that are not heads.    *)
(***************************************************************************)
Split(lines) ==
    LET scan[i \in 0..Len(lines)] ==
            IF i = 0 THEN [recs |-> <<>>, cur |-> 0, n |-> 0]
            ELSE LET s == scan[i - 1] IN
                 IF lines[i] = "head"
                 THEN [recs |-> IF s.n > 0 THEN Append(s.recs, s.cur) ELSE s.recs,
                       cur |-> IF s.n > 0 THEN 0 ELSE s.cur, n |-> s.n + 1]
                 ELSE [s EXCEPT !.cur = @ + 1]
        last == scan[Len(lines)]
    IN Append(last.recs, last.cur)

parseYumRepoListOutput(lines) == IF Cut(lines) THEN Unparsable ELSE Good(Split(lines))
\* GetStacks and GetJavaStacks do not ask for scanner.Err.
SplitStacks(lines) == Good(Split(Scanned(lines)))

\* What they are meant to be: one record for every head, with the lines up to
\* the next head (and those before the first head with the first).
Heads(lines) == {i \in DOMAIN lines : lines[i] = "head"}
RecordsOf(lines) ==
    LET nth(k) == CHOOSE i \in Heads(lines) : Cardinality({j \in Heads(lines) : j < i}) = k - 1
        n == Cardinality(Heads(lines))
        end(k) == IF k = n THEN Len(lines) + 1 ELSE nth(k + 1)
    IN Good([k \in 1..n |-> end(k) - nth(k) - 1 + (IF k = 1 THEN nth(1) - 1 ELSE 0)])

(***************************************************************************)
(* yum list installed: after the line "Installed Packages" a package is    *)
(* three fields, which yum may wrap over lines.  A line is its number of   *)
(* fields and whether it is such a header, too long, or other text.        *)
(* Result: the number of packages.                                         *)
(***************************************************************************)
Packages(lines) ==
    LET scan[i \in 0..Len(lines)] ==      \* have: fields of the package at hand
            IF i = 0 THEN [started |-> FALSE, pkgs |-> 0, have |-> 0, bad |-> FALSE]
            ELSE LET s == scan[i - 1]
                     f == s.have + lines[i].n
                 IN  IF s.bad THEN s
                     ELSE IF lines[i].is = "long" THEN [s EXCEPT !.bad = TRUE]
                     ELSE IF ~s.started THEN [s EXCEPT !.started = lines[i].is = "header"]
                     ELSE IF f > 3 \/ (s.have = 0 /\ f = 0) THEN [s EXCEPT !.bad = TRUE]
                     ELSE IF f = 3 THEN [s EXCEPT !.pkgs = @ + 1, !.have = 0]
                     ELSE [s EXCEPT !.have = f]
    IN scan[Len(lines)]
parseYumListInstallOutput(lines) ==
    LET last == Packages(lines)
    IN IF last.bad \/ last.have # 0 THEN Unparsable ELSE Good(<<last.pkgs>>)

\* What it is meant to be: the fields of the lines after the first header fall
\* into packages of three, each of which starts on a new line.
Headers(lines) == {i \in DOMAIN lines : lines[i].is = "header"}
FieldsListed(lines) ==
    LET first == CHOOSE i \in Headers(lines) : \A j \in Headers(lines) : i <= j
    IN [i \in 1..(Len(lines) - first) |-> lines[first + i].n]
PackagesOf(lines) ==
    LET fs == FieldsListed(lines)
        n == Total(fs, Len(fs))
    IN IF /\ \A i \in DOMAIN lines : lines[i].is # "long"
          /\ n % 3 = 0
          /\ \A k \in 0..(n \div 3) : \E i \in 0..Len(fs) : Total(fs, i) = 3 * k
          /\ \A i \in DOMAIN fs : fs[i] = 0 => Total(fs, i) % 3 # 0
       THEN Good(<<n \div 3>>) ELSE Unparsable
=============================================================================
