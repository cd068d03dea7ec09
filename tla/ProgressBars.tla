---------------------------- MODULE ProgressBars ----------------------------
(***************************************************************************)
(* The progress bars of libdnf-cli (libdnf-cli/progressbar): one bar, and  *)
(* the block of bars that MultiProgressBar draws with a "Total" under it.  *)
(* Widths, colours, speeds and times only change how a bar looks and are   *)
(* left out; what a bar counts, its state and its number are kept.         *)
(***************************************************************************)
EXTENDS Integers, Sequences, SequencesExt, FiniteSets, FiniteSetsExt

CONSTANT Interactive    \* tty::is_interactive()

BarStates == {"READY", "STARTED", "SUCCESS", "WARNING", "ERROR"}

\* "begun": the time of start() has been taken.
NewBar(total) ==
    [state |-> "READY", ticks |-> 0, total |-> total, auto |-> TRUE, begun |-> FALSE, number |-> 0]

IsFinished(bar) == bar.state \notin {"READY", "STARTED"}

\* A total below 0 is unknown and bounds nothing.
SetTicks(bar, value) ==
    IF IsFinished(bar) THEN bar
    ELSE [bar EXCEPT !.ticks = IF bar.total >= 0 /\ bar.total < value THEN bar.total ELSE value]

SetTotalTicks(bar, value) == IF IsFinished(bar) THEN bar ELSE [bar EXCEPT !.total = value]

\* Only the first start() of a bar changes its state.
StartBar(bar) == IF bar.begun THEN bar ELSE [bar EXCEPT !.begun = TRUE, !.state = "STARTED"]

\* A started bar that counted up to its total finishes by itself.
UpdateBar(bar) ==
    IF bar.auto /\ bar.state = "STARTED" /\ bar.total >= 0 /\ bar.ticks >= bar.total
    THEN [bar EXCEPT !.state = "SUCCESS"] ELSE bar

SetState(bar, state) == [UpdateBar(bar) EXCEPT !.state = state]

-----------------------------------------------------------------------------
(* MultiProgressBar: all the bars, and the indices of those still to do    *)
(* and of those already printed for good.                                  *)

NewMultiBar ==
    [bars |-> <<>>, todo |-> <<>>, done |-> <<>>, total |-> StartBar([NewBar(0) EXCEPT !.auto = FALSE])]

\* The next number is looked for among the bars to do only.
AddBar(multi, bar) ==
    LET index == Len(multi.bars) + 1
        numbers == {0} \cup {multi.bars[i].number : i \in Range(multi.todo)}
    IN [multi EXCEPT !.bars = Append(@, [bar EXCEPT !.number = Max(numbers) + 1]),
                     !.todo = Append(@, index)]

SumOf(indices, value(_)) == FoldLeft(LAMBDA sum, i : sum + value(i), 0, indices)

\* Total: finished with its last bar, before its counts are brought up to
\* date; drawn all the time on a terminal, otherwise only at the end.
PrintTotal(total, bars, todo, done) ==
    LET finished == IF todo = <<>> THEN SetState(total, "SUCCESS") ELSE total
        ticks == SumOf(done \o todo, LAMBDA i : bars[i].ticks)
        totalTicks == SumOf(done, LAMBDA i : bars[i].ticks) + SumOf(todo, LAMBDA i : bars[i].total)
    IN IF Interactive \/ todo = <<>>
       THEN UpdateBar(SetTicks(SetTotalTicks(finished, totalTicks), ticks))
       ELSE finished

\* operator<<: the finished bars leave the list and take the lowest numbers;
\* each of the others is updated and may finish, to be printed next time.
PrintBars(multi) ==
    LET finished == SelectSeq(multi.todo, LAMBDA i : IsFinished(multi.bars[i]))
        left == SelectSeq(multi.todo, LAMBDA i : ~ IsFinished(multi.bars[i]))
        order == finished \o left
        numberOf(i) ==
            IF i \in Range(order)
            THEN multi.bars[multi.todo[CHOOSE k \in DOMAIN order : order[k] = i]].number
            ELSE multi.bars[i].number
        bars == [i \in DOMAIN multi.bars |->
                    LET bar == [multi.bars[i] EXCEPT !.number = numberOf(i)]
                    IN IF i \in Range(left) THEN UpdateBar(bar) ELSE bar]
        done == multi.done \o finished
    IN [bars |-> bars, todo |-> left, done |-> done, total |-> PrintTotal(multi.total, bars, left, done)]

OnBar(multi, i, bar) == [multi EXCEPT !.bars[i] = bar]

IsBar(bar) ==
    /\ bar.state \in BarStates /\ bar.auto \in BOOLEAN /\ bar.begun \in BOOLEAN
    /\ bar.ticks \in Int /\ bar.total \in Int /\ bar.number \in Nat

IsMultiBar(multi) ==
    /\ \A i \in DOMAIN multi.bars : IsBar(multi.bars[i])
    /\ IsBar(multi.total)
    /\ Range(multi.todo) \cup Range(multi.done) = DOMAIN multi.bars
    /\ Range(multi.todo) \cap Range(multi.done) = {}
=============================================================================
