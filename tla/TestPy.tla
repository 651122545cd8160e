------------------------------- MODULE TestPy -------------------------------
(***************************************************************************)
(* The test driver, test.py: the main thread queues the jobs and one break *)
(* job per worker, the workers take jobs, run each as a process and put it *)
(* on the output queue, and the main thread collects as many jobs as it    *)
(* queued, writes the report, joins the workers and computes the exit      *)
(* code.  SIGINT may arrive at any time.                                   *)
(*                                                                         *)
(* What a process does is external: its exit code (3 stands for every code *)
(* above 2), whether its output can be decoded, and for a test suite the   *)
(* results file it leaves (see TestRunnerImpl::Run: the file is opened     *)
(* before the tests run and is complete, with the result of the suite,     *)
(* unless the suite dies, or no test matches and the exit code is 1).      *)
(***************************************************************************)
EXTENDS Naturals, Sequences, FiniteSets, SequencesExt

CONSTANTS Workers, \* the worker threads, one per processor
          MaxJobs  \* bound on the jobs to run

ASSUME SomeWorker == IsFiniteSet(Workers) /\ Workers # {} /\ MaxJobs \in Nat

VARIABLES
  jobs,       \* the Job objects, in the order they are queued
  queued,     \* calls of input_queue.put so far
  input,      \* input_queue: indices of jobs, Break for a break job
  worker,     \* each thread: where it is and the job it holds
  output,     \* output_queue
  collected,  \* the jobs taken from output_queue, in order
  report,     \* entries of results.xml: job and what was written for it
  tally,      \* passed_tests, skipped_tests, ...
  threadExit, \* thread_exit
  dir,        \* the temporary directory exists
  main,       \* the main thread: "dispatch", "collect", "raised" after an
              \* exception, "done"
  code,       \* exit code of the driver
  real        \* history: what became of each job

vars == <<jobs, queued, input, worker, output, collected, report, tally,
          threadExit, dir, main, code, real>>

Break == 0
Kinds == {"suite", "example"}   \* examples and Python examples are alike
Files == {"none", "PASS", "FAIL"} \* FAIL also if it breaks off without a result

\* Class Job.
NewJob == [kind : Kinds, is_skip : BOOLEAN, is_break : {FALSE},
           returncode : {0}, file : {"none"}]

\* Suites are queued before examples.
Init ==
  /\ jobs \in {s \in BoundedSeq(NewJob, MaxJobs) :
                 \A i, j \in DOMAIN s : i < j /\ s[i].kind = "example"
                                          => s[j].kind = "example"}
  /\ queued = 0 /\ input = <<>>
  /\ worker = [w \in Workers |-> [pc |-> "get", job |-> Break]]
  /\ output = <<>> /\ collected = <<>> /\ report = <<>>
  /\ tally = [s \in {"PASS", "SKIP", "FAIL", "VALGR", "CRASH"} |-> 0]
  /\ threadExit = FALSE /\ dir = TRUE
  /\ main = "dispatch" /\ code = 1
  /\ real = [i \in DOMAIN jobs |-> "pending"]

-----------------------------------------------------------------------------
(* The main thread dispatches, and SIGINT *)

\* run_tests queues every job ...
DispatchJob ==
  /\ main = "dispatch" /\ queued < Len(jobs)
  /\ input' = Append(input, queued + 1)
  /\ queued' = queued + 1
  /\ UNCHANGED <<jobs, worker, output, collected, report, tally, threadExit,
                 dir, main, code, real>>

\* ... and then a break job for every worker.
DispatchBreakOnce ==                                                \* mutant
  /\ main = "dispatch" /\ queued >= Len(jobs)
  /\ input' = Append(input, Break)
  /\ queued' = queued + 1
  /\ main' = "collect"
  /\ UNCHANGED <<jobs, worker, output, collected, report, tally, threadExit,
                 dir, code, real>>
DispatchBreak ==
  /\ main = "dispatch" /\ queued >= Len(jobs)
  /\ input' = Append(input, Break)
  /\ queued' = queued + 1
  /\ main' = IF queued' = Len(jobs) + Cardinality(Workers) THEN "collect"
             ELSE main
  /\ UNCHANGED <<jobs, worker, output, collected, report, tally, threadExit,
                 dir, code, real>>

sigint_hook ==
  /\ main # "done" /\ ~ threadExit
  /\ threadExit' = TRUE
  /\ UNCHANGED <<jobs, queued, input, worker, output, collected, report, tally,
                 dir, main, code, real>>

-----------------------------------------------------------------------------
(* A worker thread *)

\* input_queue.get
Get(w) ==
  /\ worker[w].pc = "get" /\ input # <<>>
  /\ worker' = [worker EXCEPT ![w] = [pc |-> "test", job |-> Head(input)]]
  /\ input' = Tail(input)
  /\ UNCHANGED <<jobs, queued, output, collected, report, tally, threadExit,
                 dir, main, code, real>>

\* job is as the worker leaves it, became what that means for the history.
Put(w, job, became) ==
  LET i == worker[w].job
  IN  /\ jobs' = [jobs EXCEPT ![i] = job]
      /\ output' = Append(output, i)
      /\ worker' = [worker EXCEPT ![w] = [pc |-> "get", job |-> Break]]
      /\ real' = [real EXCEPT ![i] = became]
Held(w) == jobs[worker[w].job]

\* A break job ends the thread.
ThreadReturns(w) ==
  /\ worker[w] = [pc |-> "test", job |-> Break]
  /\ worker' = [worker EXCEPT ![w].pc = "exit"]
  /\ UNCHANGED <<jobs, queued, input, output, collected, report, tally,
                 threadExit, dir, main, code, real>>

\* After an interrupt the job goes back as a break.
ThrowBackAndReturn(w) ==                                            \* mutant
  /\ worker[w].pc = "test" /\ worker[w].job # Break /\ threadExit
  /\ jobs' = [jobs EXCEPT ![worker[w].job].is_break = TRUE]
  /\ output' = Append(output, worker[w].job)
  /\ real' = [real EXCEPT ![worker[w].job] = "interrupted"]
  /\ worker' = [worker EXCEPT ![w] = [pc |-> "exit", job |-> Break]]
  /\ UNCHANGED <<queued, input, collected, report, tally, threadExit, dir,
                 main, code>>
ThrowBack(w) ==
  /\ worker[w].pc = "test" /\ worker[w].job # Break /\ threadExit
  /\ Put(w, [Held(w) EXCEPT !.is_break = TRUE], "interrupted")
  /\ UNCHANGED <<queued, input, collected, report, tally, threadExit, dir,
                 main, code>>

SkipJob(w) ==
  /\ worker[w].pc = "test" /\ worker[w].job # Break /\ ~ threadExit
  /\ Held(w).is_skip
  /\ Put(w, Held(w), "skipped")
  /\ UNCHANGED <<queued, input, collected, report, tally, threadExit, dir,
                 main, code>>

LaunchJob(w) ==
  /\ worker[w].pc = "test" /\ worker[w].job # Break /\ ~ threadExit
  /\ ~ Held(w).is_skip
  /\ worker' = [worker EXCEPT ![w].pc = "run"]
  /\ UNCHANGED <<jobs, queued, input, output, collected, report, tally,
                 threadExit, dir, main, code, real>>

\* What the process may do.
Outcomes(kind) ==
  {o \in [exit : 0 .. 3, decodable : BOOLEAN, file : Files] :
     IF kind = "example" THEN o.file = "none"
     ELSE CASE o.exit = 0 -> o.file = "PASS"
            [] o.exit = 1 -> o.file = "FAIL"
            [] o.exit = 2 -> o.file # "none"
            [] OTHER -> TRUE}

\* run_job_synchronously: output that cannot be decoded makes the code 1.
ReturnCode(o) == IF o.decodable THEN o.exit ELSE 1

JobEnds(w) ==
  /\ worker[w].pc = "run"
  /\ \E o \in Outcomes(Held(w).kind) :
       Put(w, [Held(w) EXCEPT !.returncode = ReturnCode(o), !.file = o.file],
           IF o.exit = 0 /\ o.decodable THEN "passed" ELSE "broken")
  /\ UNCHANGED <<queued, input, collected, report, tally, threadExit, dir,
                 main, code>>

-----------------------------------------------------------------------------
(* The main thread collects *)

Status(job) == IF job.is_skip THEN "SKIP"
               ELSE <<"PASS", "FAIL", "VALGR", "CRASH">>[job.returncode + 1]

\* The results file of a suite that ran to its end is copied; it is read
\* where the open may raise.
CopiesFileOfAnyCode(job) == job.kind = "suite" /\ ~ job.is_skip     \* mutant
CopiesFile(job) == job.kind = "suite" /\ ~ job.is_skip /\ job.returncode <= 2

CollectCountsBreaks ==                                              \* mutant
  /\ main = "collect" /\ Len(collected) < Len(jobs) /\ output # <<>>
  /\ LET i == Head(output)
         s == Status(jobs[i])
     IN  /\ collected' = Append(collected, i)
         /\ tally' = [tally EXCEPT ![s] = @ + 1]
         /\ report' = Append(report, [job |-> i, entry |-> s])
  /\ output' = Tail(output)
  /\ UNCHANGED <<jobs, queued, input, worker, threadExit, dir, main, code, real>>
Collect ==
  /\ main = "collect" /\ Len(collected) < Len(jobs) /\ output # <<>>
  /\ LET i == Head(output)
         job == jobs[i]
         s == Status(job)
         raises == CopiesFile(job) /\ job.file = "none"
     IN  /\ collected' = Append(collected, i)
         /\ IF job.is_break THEN UNCHANGED <<tally, report, main>>
            ELSE /\ tally' = [tally EXCEPT ![s] = @ + 1]
                 /\ main' = IF raises THEN "raised" ELSE main
                 /\ report' =
                      IF raises THEN report
                      ELSE Append(report,
                             [job |-> i,
                              entry |-> IF CopiesFile(job) THEN job.file ELSE s])
  /\ output' = Tail(output)
  /\ UNCHANGED <<jobs, queued, input, worker, threadExit, dir, code, real>>

\* The threads are joined, the report closed, the directory removed unless it
\* is to be retained, and the code returned.
AllReturned == \A w \in Workers : worker[w].pc = "exit"
Finish ==
  /\ main = "collect" /\ Len(collected) = Len(jobs)
  /\ AllReturned
  /\ dir' \in BOOLEAN
  /\ code' = IF tally["PASS"] + tally["SKIP"] = Len(jobs) THEN 0 ELSE 1
  /\ main' = "done"
  /\ UNCHANGED <<jobs, queued, input, worker, output, collected, report, tally,
                 threadExit, real>>

\* After an exception in the main thread the interpreter waits for the other
\* threads and exits with 1.
InterpreterExits ==
  /\ main = "raised" /\ AllReturned
  /\ main' = "done" /\ code' = 1
  /\ UNCHANGED <<jobs, queued, input, worker, output, collected, report, tally,
                 threadExit, dir, real>>

-----------------------------------------------------------------------------
MainStep == DispatchJob \/ DispatchBreak \/ Collect \/ Finish \/ InterpreterExits
WorkerStep(w) == \/ Get(w) \/ ThreadReturns(w) \/ ThrowBack(w) \/ SkipJob(w)
                 \/ LaunchJob(w) \/ JobEnds(w)

Next == MainStep \/ sigint_hook \/ \E w \in Workers : WorkerStep(w)

Spec == Init /\ [][Next]_vars

\* Every thread runs and every process ends.
FairSpec == /\ Spec
            /\ WF_vars(MainStep)
            /\ \A w \in Workers : WF_vars(WorkerStep(w))

-----------------------------------------------------------------------------
(* Properties *)

\* Types.
TypeOK ==
  /\ queued \in 0 .. Len(jobs) + Cardinality(Workers)
  /\ ToSet(input) \subseteq 0 .. Len(jobs)
  /\ worker \in [Workers -> [pc : {"get", "test", "run", "exit"},
                             job : 0 .. Len(jobs)]]
  /\ main \in {"dispatch", "collect", "raised", "done"}
  /\ \A s \in DOMAIN tally : tally[s] \in 0 .. Len(jobs)
  /\ code \in 0 .. 1

\* No job is lost or run twice: every job the driver has queued is in exactly
\* one place, the input queue, the hands of one worker, the output queue or
\* what was collected, at most once in each; and a worker that has returned
\* leaves no job behind that only it would have run.
JobsConserved ==
  /\ \A i \in 1 .. Len(jobs) :
       LET times(s) == Cardinality({k \in DOMAIN s : s[k] = i})
       IN  times(input) + times(output) + times(collected)
             + Cardinality({w \in Workers : worker[w].job = i})
           = IF i <= queued THEN 1 ELSE 0
  /\ (\E w \in Workers : worker[w].pc = "exit") => ToSet(input) \subseteq {Break}

\* No process runs in a directory that has been removed, and nothing of the
\* driver is left running when it returns.
DirectoryOutlivesJobs ==
  /\ (\E w \in Workers : worker[w].pc = "run") => dir
  /\ main = "done" => AllReturned

\* The exit code is 0 exactly when every job passed or was skipped; a job that
\* an interrupt threw back counts as neither, nor does one whose output could
\* not be decoded, and an exception in the collecting thread is not success.
ExitCodeTrue ==
  main = "done" =>
    (code = 0 <=> \A i \in DOMAIN jobs : real[i] \in {"passed", "skipped"})

\* The jobs of s without those of out, in the order of s.
KeptUpTo(s, out) ==
  LET kept[n \in 0 .. Len(s)] ==
        IF n = 0 THEN <<>>
        ELSE IF s[n] \in out THEN kept[n - 1] ELSE Append(kept[n - 1], s[n])
  IN  kept
Without(s, out) == KeptUpTo(s, out)[Len(s)]

Interrupted == {i \in DOMAIN jobs : real[i] = "interrupted"}
Named == [k \in DOMAIN report |-> report[k].job]

\* The report has one entry for every job collected that was not thrown back,
\* in the order in which the jobs ended, and lacks only the last, a suite that
\* broke and whose file could not be opened: then the driver raises and fails.
EntriesInOrder ==
  LET kept == Without(collected, Interrupted)
  IN  \/ Named = kept
      \/ /\ main \in {"raised", "done"} /\ code = 1
         /\ kept # <<>> /\ Named = Front(kept)
         /\ real[Last(collected)] = "broken"

\* What an entry tells of its job.  Skipped jobs and only they read SKIP, jobs
\* that passed read PASS, a crash reads CRASH whatever file it left, and what
\* reads PASS has passed -- except a suite that valgrind faulted (code 2) or
\* whose output could not be decoded (code 1), of which only its own results
\* file is copied, PASS included, and nothing faked after it.
EntryTells(job, became, entry) ==
  /\ entry = "SKIP" <=> became = "skipped"
  /\ became = "passed" => entry = "PASS"
  /\ became # "skipped" /\ job.returncode > 2 => entry = "CRASH"
  /\ entry = "PASS" => \/ became = "passed"
                       \/ job.kind = "suite" /\ job.returncode \in {1, 2}

\* results.xml has the right entry for every job collected and not thrown back,
\* in the order in which the workers of test.py returned them.
ReportMatches ==
  /\ EntriesInOrder
  /\ \A k \in DOMAIN report :
       EntryTells(jobs[report[k].job], real[report[k].job], report[k].entry)

\* The driver ends, interrupted or not, whatever the jobs do.
Terminates == <>(main = "done")

\* Jobs pass safely between the main thread and the workers of test.py, an
\* interrupt at any moment included.
JobsSafe == TypeOK /\ JobsConserved /\ DirectoryOutlivesJobs
=============================================================================
