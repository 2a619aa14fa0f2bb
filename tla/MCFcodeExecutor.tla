--------------------------- MODULE MCFcodeExecutor ---------------------------
EXTENDS FcodeExecutor

Plain(kind) == [kind |-> kind, to |-> "none"]
Move == Plain("move")
Fan == Plain("fan")
Pauses == Plain("pause")
Heat(to) == [kind |-> "heat", to |-> to]
Wait(to) == [kind |-> "wait", to |-> to]

PrintJob ==
    [job |-> <<Move, Wait("hot"), Move, Pauses, Move>>,
     macros |-> <<"startup", "heat", "probe">>,
     head |-> "EXTRUDER", autoresume |-> FALSE, bufsize |-> 10,
     requests |-> {"PAUSE", "RESUME", "ABORT"}, maxRequests |-> 2,
     faults |-> AllFaults, maxFaults |-> 1]

\* Commands of both ends in turn, and none that pauses.
MixedJob ==
    [PrintJob EXCEPT !.job = <<Move, Fan, Move, Wait("hot"), Move>>,
                  !.autoresume = TRUE,
                  !.requests = {"PAUSE", "RESUME", "ABORT", "SET_TH_OPERATING"},
                  !.faults = {"restart", "zero probe"}]

\* A job that ends itself, and the user busy with the head while it is paused.
HeldUpJob ==
    [PrintJob EXCEPT !.job = Append(MixedJob.job, Plain("abort")), !.macros = <<"startup">>,
                  !.requests = AllRequests \ {"RESUME"}, !.maxRequests = 3,
                  !.faults = {"runout", "shake", "ER"}]

\* The same, with a user who goes on printing.
ResumedJob ==
    [HeldUpJob EXCEPT !.requests = AllRequests \ {"SET_TH_STANDBY", "ABORT"},
                      !.faults = {"runout", "shake"}]

\* A job that heats, cools and changes its targets, and ends with one that is refused.
CoolingJob ==
    [PrintJob EXCEPT !.job = <<Heat("hot"), Wait("hotter"), Move, Heat("low"), Move, Heat("off"),
                            Wait("low"), Move, Wait("hot"), Move, Heat("excess")>>,
                  !.macros = <<>>, !.faults = {"restart"}]

\* More moves in a row than the buffer takes, and an unreadable tail.
EngraveJob ==
    [PrintJob EXCEPT !.job = <<Move, Move, Move, Pauses, Move, Move, Move, Move, Plain("bad")>>,
                  !.macros = <<"startup">>, !.head = "LASER", !.bufsize = 4,
                  !.maxRequests = 3, !.faults = {}, !.maxFaults = 0]

QuietJob == [PrintJob EXCEPT !.requests = {"PAUSE"}, !.maxRequests = 1, !.faults = {}, !.maxFaults = 0]

Jobs == {PrintJob, HeldUpJob, ResumedJob, CoolingJob, EngraveJob}
LiveJob == {MixedJob}
EarlyPause == {QuietJob}
=============================================================================
