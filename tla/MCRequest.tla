----------------------------- MODULE MCRequest ------------------------------
(***************************************************************************)
(* Instances of ClaxRequest for TLC.                                       *)
(***************************************************************************)
EXTENDS ClaxRequest

Length == <<"Content-", "Length">>
Type == <<"Content-", "Type">>
Expecting == <<"Expect">>
FormType == <<"form">>
OneHundred == <<"100-", "continue">>

H_(n, v) == [name |-> n, value |-> v]

\* atoi: the digits a text begins with.
Number(v) ==
  FoldLeft(LAMBDA a, u : IF a.on /\ u \in Num THEN [a EXCEPT !.n = 10 * @ + HexValue[u]]
                         ELSE [a EXCEPT !.on = FALSE], [on |-> TRUE, n |-> 0], v).n

Message ==
  [method |-> "GET ", url |-> <<"/", "t">>, version |-> "HTTP/1.1", headers |-> << >>,
   body |-> << >>, chunks |-> << >>, trailers |-> << >>]

With(m, hs) == [m EXCEPT !.headers = hs]

Post == [Message EXCEPT !.method = "POST "]
Sized(name, value, n) == [With(Post, <<H_(name, value)>>) EXCEPT !.body = [i \in 1..n |-> "b"]]
Chunked(hs) ==
  [With(Post, <<H_(<<"Transfer-Encoding">>, <<"chunked">>)>> \o hs) EXCEPT
     !.chunks = <<<<"b", "b">>, <<"b">>>>]

Good ==
  {<<[Message EXCEPT !.url = <<"/", "%", "4", "1", "?", "k", "=", "v">>]>>,
   <<With(Message, <<H_(<<"X">>, << >>), H_(Expecting, OneHundred)>>), Message>>,
   <<With(Message, <<H_(<<"Connection">>, <<"x", ",", " ", "keep-alive">>)>>)>>,
   <<[With(Message, <<H_(<<"connection">>, <<"keep-alive">>)>>) EXCEPT !.version = "HTTP/1.0"], Message>>,
   <<With(Message, <<H_(<<"X">>, <<"a", "CR", "LF", " ", "b">>)>>)>>,
   <<Sized(Length, <<"2">>, 2), Message>>,
   <<Sized(Length, <<"1">>, 1), Sized(Length, <<"1">>, 1)>>,
   <<Sized(Length, <<"1", "0">>, 10)>>,
   <<Sized(Length, <<"0">>, 0)>>,
   <<Sized(<<"content-", "length">>, <<"2">>, 2)>>,
   <<[With(Post, <<H_(Type, FormType), H_(Length, <<"3">>)>>) EXCEPT !.body = <<"k", "=", "v">>]>>,
   <<Chunked(<< >>), Message>>,
   <<[Chunked(<<H_(Length, <<"1">>)>>) EXCEPT !.trailers = <<H_(Length, <<"3">>)>>]>>}

Closing == With(Message, <<H_(<<"Connection">>, <<"close">>)>>)
Upgrading ==
  With(Message, <<H_(<<"Connection">>, <<"upgrade">>), H_(<<"Upgrade">>, <<"x">>)>>)

Fails(m) == [messages |-> << >>, rest |-> Units(m), more |-> m.headers]

\* What is followed by more than messages: one after the last there may be, another
\* protocol, and requests that are none.
Odd ==
  {[messages |-> <<Closing>>, rest |-> Units(Message), more |-> << >>],
   [messages |-> <<[Message EXCEPT !.version = "HTTP/1.0"]>>, rest |-> <<"LF">> \o Units(Message),
    more |-> << >>],
   [messages |-> <<Upgrading>>, rest |-> <<"x", "y">>, more |-> << >>],
   [messages |-> << >>,
    rest |-> <<"POST ", "/", " ", "HTTP/1.1", "LF", "X", ":", "LF", "Transfer-Encoding", ":",
               "chunked", "LF", "LF", "0", "3", ";", "x", "CR", "LF", "b", "LF">>,
    more |-> <<H_(<<"X">>, << >>), H_(<<"Transfer-Encoding">>, <<"chunked">>)>>],
   [messages |-> << >>, rest |-> <<"GET ", "/", "LF", "X", " ">>, more |-> <<H_(<<"X">>, << >>)>>],
   [messages |-> << >>,
    rest |-> <<"POST ", "/", " ", "HTTP/1.1", "LF", "Transfer-Encoding", ":", "chunked", "LF", "LF",
               "3", "f", "CR", "LF">>,
    more |-> <<H_(<<"Transfer-Encoding">>, <<"chunked">>)>>],
   [messages |-> << >>,
    rest |-> <<"GET ", "/", " ", "HTTP/1.1", "LF", "X", ":">> \o [i \in 1..25 |-> "y"] \o <<"LF", "LF">>,
    more |-> <<H_(<<"X">>, [i \in 1..25 |-> "y"])>>],
   Fails(With(Message, <<H_([i \in 1..27 |-> "X"], << >>)>>)),
   Fails(Sized(Length, <<"6", "3">>, 2)),
   Fails(Sized(Length, <<"x">>, 2)),
   Fails([Message EXCEPT !.method = "CONNECT ", !.url = <<"h", ":", "1">>]),
   Fails(With(Message, [i \in 1..6 |-> H_(<<"X">>, <<"y">>)]))}

SomeTalks == {[messages |-> g, rest |-> << >>, more |-> << >>] : g \in Good} \cup Odd

SomeInputs == {Sent(t) : t \in SomeTalks}
AllWrites == {"ok", "short", "failed"}

\* Nothing, a path, and one that is refused.
SomeLeftovers == {<< >>, <<"x">>, <<"%", "0", "0">>}
=============================================================================
