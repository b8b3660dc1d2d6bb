----------------------------- MODULE ApiAnswers -----------------------------
(***************************************************************************)
(* How the protocol client takes an answer of the API.  An answer is that  *)
(* of a request that ended (or timed out, or failed), its HTTP status and  *)
(* the codes its body names: a body that is no JSON names none.  A code is *)
(* an integer, Absent, or Unreadable when it is no integer.                *)
(***************************************************************************)
EXTENDS Integers, Sequences

CONSTANT
    Half    \* 2 ^ 31: an i32 is in -Half..(Half - 1)

Absent == [code |-> "absent"]
Unreadable == [code |-> "unreadable"]
Code(n) == [code |-> "integer", n |-> n]

SESSION_EXPIRED == -14
RATE_LIMIT_ERRCODE == -2

\* A cast of a longer integer to an i32.
AsI32(n) == ((n + Half) % (2 * Half)) - Half

Codes == {Absent, Unreadable} \cup [code : {"integer"}, n : Int]
AnswersOfApi ==
    [transport : {"ok", "timeout", "transport"}, status : Nat, errcode : Codes, ret : Codes]

IsInteger(c) == c.code = "integer"
Names(c) == IsInteger(c) /\ c.n # 0

Ok == [is |-> "ok", code |-> 0]
Err(is, n) == [is |-> is, code |-> n]

\* api_error
ApiError(n) == Err(IF n = RATE_LIMIT_ERRCODE THEN "rate_limited" ELSE "api", n)

\* Mutant: an errcode of zero is taken for the answer's code.
NamedCodeFirst(a) == IF IsInteger(a.errcode) THEN a.errcode.n
                     ELSE IF IsInteger(a.ret) THEN a.ret.n ELSE 0

\* The code of an answer without an HTTP error: errcode, unless it is zero, or ret.
NamedCode(a) == IF Names(a.errcode) THEN a.errcode.n
                ELSE IF Names(a.ret) THEN a.ret.n ELSE 0

\* api_post: with an HTTP error ret is not looked at.
ApiPost(a) ==
    CASE a.transport # "ok" -> Err(a.transport, 0)
      [] a.transport = "ok" /\ a.status >= 400 ->
           ApiError(IF IsInteger(a.errcode) THEN AsI32(a.errcode.n) ELSE 0)
      [] a.transport = "ok" /\ a.status < 400 /\ NamedCode(a) # 0 ->
           ApiError(AsI32(NamedCode(a)))
      [] OTHER -> Ok

\* get_updates: a timeout is a batch without updates; what is left to look at may
\* still be unreadable.
GetUpdates(a) ==
    CASE ApiPost(a).is = "timeout" -> Ok
      [] ApiPost(a) = Ok /\ Unreadable \in {a.errcode, a.ret} -> Err("json", 0)
      [] OTHER -> ApiPost(a)

\* send_message hands out the answer as it is.
SendMessage(a) == ApiPost(a)

IsSessionExpired(result) == result = Err("api", SESSION_EXPIRED)
IsRateLimited(result) == result.is = "rate_limited"
=============================================================================
