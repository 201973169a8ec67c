------------------------------- MODULE Marshalling ------------------------------
(***************************************************************************)
(* The mapping of objects to XML and back (adt/marshalling.py, with the    *)
(* properties of adt/annotations.py). The parser keeps one handler, that   *)
(* of the element it met last, in a table that grows while it reads; a     *)
(* document is a series of SAX events, either of the server, with elements *)
(* the classes do not know, or made by serialize().                        *)
(*                                                                         *)
(* The class of the example has an attribute, a text t, an object o and a  *)
(* list l of objects; o and the items of l have an attribute and a text u, *)
(* which is not written when it is empty (ignore_empty).                   *)
(***************************************************************************)
EXTENDS Naturals, Sequences

CONSTANTS MaxEvents    \* bound: events of a document of the server

VARIABLES client,      \* the parser and the object it fills
          server,      \* the document that is being read
          seen         \* history: see Init

vars == <<client, server, seen>>

Unset == <<"unset">>
Names == {"r", "t", "o", "l", "u", "x"}    \* of elements; the class has none named x
Chunks == {"x", " "}
Root == <<"r">>
Texts == {<<"r", "t">>, <<"r", "o", "u">>, <<"r", "l", "u">>}
Objects == {Root, <<"r", "o">>, <<"r", "l">>}
NoPath == <<>>

\* A new object, and a new item or object inside it.
NewInner == [a |-> "unset", u |-> Unset]
NewObject == [a |-> "unset", t |-> Unset, there |-> FALSE, o |-> NewInner, l |-> <<>>]

Start(name, a) == [what |-> "start", name |-> name, a |-> a]
Text(chunk) == [what |-> "text", name |-> chunk, a |-> "unset"]
End == [what |-> "end", name |-> "", a |-> "unset"]

-----------------------------------------------------------------------------
(* serialize() of an object: its attributes that are not None, then its elements
   in the order of their definitions. *)
TextEvents(name, text) ==
    <<Start(name, "unset")>> \o (IF text \in {Unset, <<>>} THEN <<>> ELSE <<Text(text[1])>>) \o <<End>>

InnerEvents(name, inner) ==
    <<Start(name, inner.a)>>
    \o (IF inner.u \in {Unset, <<>>} THEN <<>> ELSE TextEvents("u", inner.u)) \o <<End>>

\* An object that is None becomes an empty element, a list of none nothing.
Serialize(obj) ==
    <<Start("r", obj.a)>> \o TextEvents("t", obj.t)
    \o (IF obj.there THEN InnerEvents("o", obj.o) ELSE <<Start("o", "unset"), End>>)
    \o (IF Len(obj.l) > 0 THEN InnerEvents("l", obj.l[1]) ELSE <<>>)
    \o (IF Len(obj.l) > 1 THEN InnerEvents("l", obj.l[2]) ELSE <<>>) \o <<End>>

\* Objects of the program; each text is one chunk, as escape() leaves it.
Inners == [a: {"unset", "v"}, u: {Unset, <<>>, <<"x">>, <<" ">>}]
Programs == {obj \in [a: {"unset", "v"}, t: {Unset, <<>>, <<"x">>}, there: BOOLEAN, o: Inners,
                      l: {<<>>} \cup {<<i>> : i \in Inners} \cup {<<i, NewInner>> : i \in Inners}] :
                ~obj.there => obj.o = NewInner}

(***************************************************************************)
(* open: the elements that are open, todo: the events of our own document, *)
(* left: how many events the server may still send. handler: of which      *)
(* element, bound: the item that the handler of its text was made for.     *)
(* given: the object of our own document, written: what the document says, *)
(* odd: a text element has a child, stray: text or an attribute where the  *)
(* class has none.                                                         *)
(***************************************************************************)
Init ==
    /\ client = [path |-> <<>>, handler |-> NoPath, buffer |-> <<>>, bound |-> 0,
                 obj |-> NewObject, raised |-> FALSE]
    /\ \/ /\ server = [open |-> <<>>, todo |-> <<>>, left |-> MaxEvents]
          /\ seen = [own |-> FALSE, given |-> NewObject, written |-> NewObject, odd |-> FALSE, stray |-> FALSE]
       \/ \E obj \in Programs :
             /\ server = [open |-> <<>>, todo |-> Serialize(obj), left |-> 0]
             /\ seen = [own |-> TRUE, given |-> obj, written |-> NewObject, odd |-> FALSE, stray |-> FALSE]

TypeOK ==
    /\ client.path \in Seq(Names) /\ client.handler \in {NoPath} \cup Objects \cup Texts
    /\ client.bound \in 0..Len(client.obj.l) /\ client.raised \in BOOLEAN
    /\ server.left \in 0..MaxEvents
    /\ DOMAIN client.obj = DOMAIN NewObject /\ DOMAIN seen.written = DOMAIN NewObject

AtEnd == server.open = <<>> /\ client.path = <<>> /\ server.todo = <<>>
Begun == seen.own \/ server.left < MaxEvents

\* The next event: of our own document, or any that keeps the document well-formed.
Coming ==
    IF seen.own THEN IF server.todo = <<>> THEN {} ELSE {Head(server.todo)}
    ELSE (IF server.left = MaxEvents THEN {Start("r", "unset"), Start("r", "v")} ELSE {})
         \cup (IF server.open # <<>> /\ server.left > 0
               THEN {Start(n, "unset") : n \in {"t", "o", "l", "u", "x"}}
                    \cup {Start(n, "v") : n \in {"t", "l"}} \cup {Text(c) : c \in Chunks}
               ELSE {})
         \cup (IF server.open # <<>> THEN {End} ELSE {})

\* What the document says, whatever the parser does.
Last(obj) == Len(obj.l)
SetText(obj, path, text) ==
    CASE path = <<"r", "t">> -> [obj EXCEPT !.t = text]
      [] path = <<"r", "o", "u">> -> [obj EXCEPT !.o.u = text]
      [] path = <<"r", "l", "u">> -> [obj EXCEPT !.l[Last(obj)].u = text]
      [] OTHER -> obj
TextAt(obj, path) ==
    CASE path = <<"r", "t">> -> obj.t
      [] path = <<"r", "o", "u">> -> obj.o.u
      [] OTHER -> obj.l[Last(obj)].u
WithElement(obj, path, a) ==
    CASE path = Root -> [obj EXCEPT !.a = a]
      [] path = <<"r", "o">> -> [obj EXCEPT !.there = TRUE, !.o = [NewInner EXCEPT !.a = a]]
      [] path = <<"r", "l">> -> [obj EXCEPT !.l = Append(@, [NewInner EXCEPT !.a = a])]
      [] OTHER -> SetText(obj, path, <<>>)

Read(e, open, written, odd, stray) ==
    /\ server' = [open |-> open, todo |-> IF seen.own THEN Tail(server.todo) ELSE <<>>,
                  left |-> IF server.left > 0 /\ e # End THEN server.left - 1 ELSE server.left]
    /\ seen' = [seen EXCEPT !.written = written, !.odd = odd, !.stray = stray]

-----------------------------------------------------------------------------
\* startElement(): an element of the table becomes the handler, makes its object
\* and the handlers of its children, and takes the attributes, which a text
\* must not have. Another element leaves the handler of its parent.
StartElement(e) ==
    LET path == Append(client.path, e.name)
    IN  /\ e.what = "start" /\ ~client.raised
        /\ client' = IF path \notin Objects \cup Texts THEN [client EXCEPT !.path = path]
                     ELSE [client EXCEPT !.path = path, !.handler = path, !.buffer = <<>>,
                             !.raised = path \in Texts /\ e.a # "unset",
                             !.obj = IF path \in Objects THEN WithElement(@, path, e.a) ELSE @,
                             !.bound = IF path = <<"r", "l">> THEN Len(client.obj.l) + 1 ELSE @]
        /\ Read(e, Append(server.open, e.name), WithElement(seen.written, path, e.a),
                seen.odd \/ client.path \in Texts, seen.stray \/ (path \in Texts /\ e.a # "unset"))

\* characters(): appended to a text; elsewhere only blanks are accepted.
Characters(e) ==
    LET path == server.open
    IN  /\ e.what = "text" /\ ~client.raised
        /\ client' = CASE client.handler \in Texts -> [client EXCEPT !.buffer = Append(@, e.name)]
                       [] client.handler \in Objects /\ e.name # " " -> [client EXCEPT !.raised = TRUE]
                       [] OTHER -> client
        /\ IF path \in Texts
           THEN Read(e, path, SetText(seen.written, path, Append(TextAt(seen.written, path), e.name)),
                     seen.odd, seen.stray)
           ELSE Read(e, path, seen.written, seen.odd, seen.stray \/ e.name # " ")

\* set_text() of the handler; that of an item's text belongs to one item.
Stored ==
    CASE client.handler = <<"r", "l", "u">> -> [client.obj EXCEPT !.l[client.bound].u = client.buffer]
      [] client.handler \in Texts \ {<<"r", "l", "u">>} -> SetText(client.obj, client.handler, client.buffer)
      [] OTHER -> client.obj

\* Broken form of EndElement: the handler stays.
EndElementKeeps(e) ==
    /\ e.what = "end" /\ ~client.raised
    /\ client' = [client EXCEPT !.path = SubSeq(@, 1, Len(@) - 1), !.obj = Stored]
    /\ Read(e, SubSeq(server.open, 1, Len(server.open) - 1), seen.written, seen.odd, seen.stray)

EndElement(e) ==
    /\ e.what = "end" /\ ~client.raised
    /\ client' = [client EXCEPT !.path = SubSeq(@, 1, Len(@) - 1), !.obj = Stored, !.handler = NoPath]
    /\ Read(e, SubSeq(server.open, 1, Len(server.open) - 1), seen.written, seen.odd, seen.stray)

Next == \E e \in Coming : StartElement(e) \/ Characters(e) \/ EndElement(e)

-----------------------------------------------------------------------------
\* A document is rejected only if there is text, or an attribute, that the class
\* does not expect; the text of an unknown element may be such a text.
RejectedOnlyIfStray == client.raised => seen.stray

\* The object says what the document says, unknown elements aside.
ParsedAsWritten == AtEnd /\ Begun /\ ~client.raised /\ ~seen.odd => client.obj = seen.written

\* What serialize() wrote comes back: a text that was None as an empty one, an
\* empty text that is not written as None, and an object that was None as a new one.
RoundTrip ==
    seen.own =>
        /\ ~client.raised
        /\ AtEnd => LET Dropped(i) == [i EXCEPT !.u = IF @ = <<>> THEN Unset ELSE @]
                    IN  client.obj = [seen.given EXCEPT !.t = IF @ = Unset THEN <<>> ELSE @, !.there = TRUE,
                                        !.o = Dropped(@), !.l = [n \in DOMAIN @ |-> Dropped(@[n])]]

(***************************************************************************)
(* What the parser makes of a document is what the document says, however  *)
(* elements repeat, nest and mix with unknown ones, and nothing but text   *)
(* or attributes out of place makes it give up; what the program writes it *)
(* reads back.                                                             *)
(***************************************************************************)
MappingIsFaithful == RejectedOnlyIfStray /\ ParsedAsWritten /\ RoundTrip
=============================================================================
