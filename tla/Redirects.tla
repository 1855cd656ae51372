------------------------------- MODULE Redirects -------------------------------
(***************************************************************************)
(* Where the redirects of a foreground stage send its standard output and  *)
(* error (RedirectPlan.apply, Redirect.apply).  Redirects of stdin do not  *)
(* touch these two and are not in the lists; all files count as one.       *)
(***************************************************************************)
EXTENDS Integers, Sequences

(* > f, 2> f, 2>&1 and 1>&2                                                *)
Redirect == {"out", "err", "merge", "swap"}
OnStdout(r) == r \in {"out", "swap"}

(* What Popen is given: a pipe of its own, a file, the write end of the    *)
(* shared pipe, or subprocess.STDOUT.                                      *)
Target == {"PIPE", "file", "shared", "STDOUT"}
FdPlan == [stdout : Target, stderr : Target, has_shared : BOOLEAN]
FdDefaults == [stdout |-> "PIPE", stderr |-> "PIPE", has_shared |-> FALSE]

(* has_shared: shared_read_fd is set.  It stays set when later redirects   *)
(* point both targets elsewhere.                                           *)
share_stdout_stderr_via_pipe ==
  [stdout |-> "shared", stderr |-> "shared", has_shared |-> TRUE]

(* A 2>&1 before a > f must leave stderr where stdout went until then.     *)
(* The lookahead has no meaning on other stages, which cannot redirect     *)
(* their stdout.                                                           *)
Apply(plan, r, snapshot_2gt1) ==
  CASE r = "out" -> [plan EXCEPT !.stdout = "file"]
    [] r = "err" -> [plan EXCEPT !.stderr = "file"]
    [] r = "merge" /\ snapshot_2gt1 /\ plan.stdout = "PIPE" ->
         share_stdout_stderr_via_pipe
    [] r = "merge" /\ ~(snapshot_2gt1 /\ plan.stdout = "PIPE") ->
         [plan EXCEPT !.stderr = "STDOUT"]
    [] r = "swap" /\ plan.stderr = "PIPE" -> share_stdout_stderr_via_pipe
    [] r = "swap" /\ plan.stderr # "PIPE" -> [plan EXCEPT !.stdout = plan.stderr]

has_later_stdout_file(redirects) == \E k \in DOMAIN redirects : redirects[k] = "out"

(* The targets after the first k redirects of the list.                    *)
ResolveFirst(k, redirects, is_last) ==
  LET snapshot_2gt1 == is_last /\ has_later_stdout_file(redirects)
      After[j \in 0..k] ==
        IF j = 0 THEN FdDefaults ELSE Apply(After[j - 1], redirects[j], snapshot_2gt1)
  IN After[k]

Resolve(redirects, is_last) == ResolveFirst(Len(redirects), redirects, is_last)
================================================================================
