------------------------- MODULE ClaxHeaders_proofs -------------------------
(***************************************************************************)
(* Theorems about ClaxKv and ClaxHeaders.                                  *)
(***************************************************************************)
EXTENDS ClaxHeaders, SequenceTheorems, TLAPS

Strings == Seq(STRING)
KvList == Seq([key : Strings, val : Strings])

\* Every key of a list has a first item.
HasFirsts(list) ==
  \A k \in Strings : Has(list, k) => \E i \in DOMAIN list : IsFirst(list, k, i)

-----------------------------------------------------------------------------
(* The key-value list.                                                     *)

\* find_item finds the first item of a key the list has.
LEMMA FindFirst ==
  ASSUME NEW list \in KvList, HasFirsts(list), NEW k \in Strings, Has(list, k)
  PROVE  /\ clax_kv_list_find_item(list, k) \in DOMAIN list
         /\ IsFirst(list, k, clax_kv_list_find_item(list, k))
BY DEF HasFirsts, clax_kv_list_find_item

\* There is one first item of a key.
LEMMA FirstUnique ==
  ASSUME NEW list \in KvList, HasFirsts(list), NEW k \in Strings,
         NEW i \in DOMAIN list, IsFirst(list, k, i)
  PROVE  clax_kv_list_find_item(list, k) = i
<1>1. Has(list, k)
  BY DEF Has, IsFirst
<1>2. /\ clax_kv_list_find_item(list, k) \in DOMAIN list
      /\ IsFirst(list, k, clax_kv_list_find_item(list, k))
  BY <1>1, FindFirst
<1>3. DOMAIN list \subseteq Nat
  BY DEF KvList
<1> QED
  BY <1>2, <1>3 DEF IsFirst, KvList

\* A pushed item is found if its key is new, and hides nothing.
LEMMA PushKeeps ==
  ASSUME NEW list \in KvList, HasFirsts(list), NEW k \in Strings, NEW v \in Strings
  PROVE  LET new == clax_kv_list_push(list, k, v)
         IN  /\ new \in KvList
             /\ new # << >>
             /\ new[Len(new)].key = k
             /\ HasFirsts(new)
             /\ \A q \in Strings : Has(new, q) <=> Has(list, q) \/ q = k
             /\ \A q \in Strings : Has(list, q) => clax_kv_list_find(new, q) = clax_kv_list_find(list, q)
             /\ ~Has(list, k) => clax_kv_list_find(new, k) = v
<1> DEFINE new == clax_kv_list_push(list, k, v)
<1>1. /\ new \in KvList
      /\ Len(new) = Len(list) + 1
      /\ DOMAIN new = DOMAIN list \cup {Len(list) + 1}
      /\ new[Len(list) + 1] = Item(k, v)
      /\ \A i \in DOMAIN list : new[i] = list[i]
  BY DEF clax_kv_list_push, Item, KvList, Strings
<1>2. new # << >> /\ new[Len(new)].key = k
  BY <1>1 DEF Item, KvList
<1>3. \A q \in Strings : Has(new, q) <=> Has(list, q) \/ q = k
  BY <1>1 DEF Has, Item
<1>4. ASSUME NEW q \in Strings, NEW i \in DOMAIN list, IsFirst(list, q, i)
      PROVE  i \in DOMAIN new /\ IsFirst(new, q, i)
  BY <1>1, <1>4 DEF IsFirst, KvList
<1>5. ASSUME ~Has(list, k)
      PROVE  IsFirst(new, k, Len(new)) /\ Len(new) \in DOMAIN new
  BY <1>1, <1>5 DEF IsFirst, Has, Item, KvList
<1>6. HasFirsts(new)
  BY <1>3, <1>4, <1>5 DEF HasFirsts
<1>7. ASSUME NEW q \in Strings, Has(list, q)
      PROVE  clax_kv_list_find(new, q) = clax_kv_list_find(list, q)
  <2> DEFINE i == clax_kv_list_find_item(list, q)
  <2>1. i \in DOMAIN list /\ IsFirst(list, q, i)
    BY <1>7, FindFirst
  <2>2. clax_kv_list_find_item(new, q) = i
    BY <1>1, <1>4, <1>6, <2>1, FirstUnique
  <2> QED
    BY <1>1, <2>1, <2>2 DEF clax_kv_list_find
<1>8. ASSUME ~Has(list, k)
      PROVE  clax_kv_list_find(new, k) = v
  <2>1. clax_kv_list_find_item(new, k) = Len(new)
    BY <1>1, <1>5, <1>6, <1>8, FirstUnique
  <2> QED
    BY <1>1, <2>1 DEF clax_kv_list_find, Item
<1> QED
  BY <1>1, <1>2, <1>3, <1>6, <1>7, <1>8

\* A set item is found with its value, and the others as before.
LEMMA SetKeeps ==
  ASSUME NEW list \in KvList, HasFirsts(list), NEW k \in Strings, NEW v \in Strings,
         Has(list, k)
  PROVE  LET new == clax_kv_list_set(list, k, v)
         IN  /\ new \in KvList
             /\ Len(new) = Len(list)
             /\ \A i \in DOMAIN list : new[i].key = list[i].key
             /\ HasFirsts(new)
             /\ \A q \in Strings : Has(new, q) <=> Has(list, q)
             /\ \A q \in Strings : Has(list, q) /\ q # k =>
                  clax_kv_list_find(new, q) = clax_kv_list_find(list, q)
             /\ clax_kv_list_find(new, k) = v
<1> DEFINE new == clax_kv_list_set(list, k, v)
           at == clax_kv_list_find_item(list, k)
<1>1. at \in DOMAIN list /\ IsFirst(list, k, at)
  BY FindFirst
<1>2. /\ new \in KvList
      /\ DOMAIN new = DOMAIN list
      /\ Len(new) = Len(list)
      /\ \A i \in DOMAIN list : new[i].key = list[i].key
      /\ \A i \in DOMAIN list : i # at => new[i] = list[i]
      /\ new[at].val = v
  <2> DEFINE KV == [key : Strings, val : Strings]
  <2>1. new = [list EXCEPT ![at].val = v]
    BY DEF clax_kv_list_set
  <2>2. /\ Len(list) \in Nat
        /\ DOMAIN list = 1..Len(list)
        /\ \A i \in DOMAIN list : list[i] \in KV
    <3>1. list \in Seq(KV)
      BY DEF KvList
    <3> HIDE DEF KV
    <3> QED
      BY <3>1
  <2> HIDE DEF new, at
  <2>3. /\ DOMAIN new = DOMAIN list
        /\ new[at] = [list[at] EXCEPT !.val = v]
        /\ \A i \in DOMAIN list : i # at => new[i] = list[i]
    BY <1>1, <2>1, <2>2
  <2>4. /\ new[at] \in KV
        /\ new[at].key = list[at].key
        /\ new[at].val = v
    BY <1>1, <2>2, <2>3
  <2>5. \A i \in DOMAIN list : new[i] \in KV /\ new[i].key = list[i].key
    BY <2>2, <2>3, <2>4
  <2>6. new = [i \in 1..Len(list) |-> new[i]]
    BY <2>1, <2>2, <2>3
  <2>7. new \in KvList /\ Len(new) = Len(list)
    BY <2>2, <2>3, <2>5, <2>6 DEF KvList
  <2> QED
    BY <2>3, <2>4, <2>5, <2>7
<1>3. \A q \in Strings : Has(new, q) <=> Has(list, q)
  BY <1>2 DEF Has
<1>4. \A q \in Strings, i \in DOMAIN list : IsFirst(new, q, i) <=> IsFirst(list, q, i)
  BY <1>2 DEF IsFirst, KvList
<1>5. HasFirsts(new)
  BY <1>2, <1>3, <1>4 DEF HasFirsts
<1>6. ASSUME NEW q \in Strings, Has(list, q)
      PROVE  /\ clax_kv_list_find_item(new, q) = clax_kv_list_find_item(list, q)
             /\ q # k => clax_kv_list_find_item(list, q) # at
             /\ clax_kv_list_find_item(list, q) \in DOMAIN list
  <2> DEFINE i == clax_kv_list_find_item(list, q)
  <2>1. i \in DOMAIN list /\ IsFirst(list, q, i)
    BY <1>6, FindFirst
  <2>2. clax_kv_list_find_item(new, q) = i
    BY <1>2, <1>4, <1>5, <2>1, FirstUnique
  <2> QED
    BY <1>1, <2>1, <2>2 DEF IsFirst
<1>7. \A q \in Strings : Has(list, q) /\ q # k =>
        clax_kv_list_find(new, q) = clax_kv_list_find(list, q)
  BY <1>2, <1>6 DEF clax_kv_list_find
<1>8. clax_kv_list_find(new, k) = v
  BY <1>2, <1>6 DEF clax_kv_list_find
<1> QED
  BY <1>2, <1>3, <1>5, <1>7, <1>8

-----------------------------------------------------------------------------
(* The parser.                                                             *)

\* A value follows a name: there is an item it can be set in.
IInv ==
  /\ TypeOK
  /\ HasFirsts(headers)
  /\ part > 0 => headers # << >>
  /\ LengthAgrees

\* What http_parser hands out is a text.
LEMMA PieceType ==
  ASSUME TypeOK, Read, NEW n \in 0..Len(Text), taken + n <= Len(Text)
  PROVE  Text \in Strings /\ Piece(n) \in Strings
<1>1. message \in Seq(Header)
  BY MessagesAssumption DEF TypeOK
<1>2. part \div 2 + 1 \in 1..Len(message)
  BY <1>1 DEF TypeOK, Read
<1>3. Current \in Header
  BY <1>1, <1>2 DEF Current
<1>4. Text \in Strings
  BY <1>3 DEF Text, Header, Strings
<1>5. Text \in Seq(STRING) /\ taken \in Nat
  BY <1>4 DEF Strings, TypeOK
<1>6. \A i \in (taken + 1)..(taken + n) : Text[i] \in STRING
  BY <1>5
<1> HIDE DEF Text
<1>7. SubSeq(Text, taken + 1, taken + n) \in Seq(STRING)
  BY <1>5, <1>6, SubSeqProperties
<1> QED
  BY <1>4, <1>7 DEF Piece, Strings

\* The place in the message stays in it.
LEMMA HandsOutType ==
  ASSUME TypeOK, Read, NEW n \in 0..Len(Text), NEW ends \in BOOLEAN,
         Text \in Strings, HandsOut(n, ends), message' = message
  PROVE  /\ message' \in Messages
         /\ part' \in 0..(2 * Len(message')) /\ taken' \in Nat
         /\ whole' \in BOOLEAN
<1>1. message \in Messages /\ Len(message) \in Nat
  BY MessagesAssumption DEF TypeOK
<1>2. n \in Nat
  BY DEF Strings
<1>3. part' = part + 1 \/ part' = part
  BY DEF HandsOut
<1>4. part' \in 0..(2 * Len(message))
  BY <1>1, <1>3 DEF TypeOK, Read
<1>5. taken' \in Nat
  BY <1>2 DEF HandsOut, TypeOK
<1>6. whole' \in BOOLEAN
  BY DEF HandsOut, TypeOK
<1> QED
  BY <1>1, <1>4, <1>5, <1>6

\* What is handed out of a value has a number.
LEMMA PieceNumber ==
  ASSUME TypeOK, Read, part % 2 = 1, NEW n \in 0..Len(Text), taken + n <= Len(Text)
  PROVE  atoi(Piece(n)) \in Int
<1>1. message \in Messages /\ message \in Seq(Header)
  BY MessagesAssumption DEF TypeOK
<1> DEFINE i == part \div 2 + 1
           v == message[i].value
<1>2. i \in DOMAIN message
  BY <1>1 DEF TypeOK, Read
<1>3. v \in Seq(STRING)
  <2>1. message[i] \in Header
    BY <1>1, <1>2
  <2> QED
    BY <2>1 DEF Header
<1>4. Text = v
  BY DEF Text, Current
<1>5. /\ taken + 1 \in 1..(Len(v) + 1)
      /\ taken + n \in 0..Len(v)
  BY <1>3, <1>4 DEF TypeOK
<1>6. \A j \in 1..(Len(v) + 1), k \in 0..Len(v) : atoi(SubSeq(v, j, k)) \in Int
  BY <1>1, <1>2, NumberAssumption
<1> HIDE DEF v
<1> QED
  BY <1>4, <1>5, <1>6 DEF Piece

\* Init establishes the invariant.
LEMMA InitInv == Init => IInv
<1> SUFFICES ASSUME Init PROVE IInv
  OBVIOUS
<1>1. message \in Seq(Header)
  BY MessagesAssumption DEF Init
<1>2. TypeOK
  <2>1. Len(message) \in Nat
    BY <1>1
  <2>2. headers \in Seq([key : Seq(STRING), val : Seq(STRING)])
    BY DEF Init
  <2>3. part \in 0..(2 * Len(message)) /\ taken \in Nat /\ content_length \in Int
    BY <2>1 DEF Init
  <2>4. message \in Messages /\ continue_expected \in BOOLEAN /\ whole \in BOOLEAN
    BY DEF Init
  <2> QED
    BY <2>2, <2>3, <2>4 DEF TypeOK
<1>3. \A k : ~Has(headers, k)
  BY DEF Init, Has
<1> QED
  BY <1>2, <1>3 DEF Init, IInv, HasFirsts, LengthAgrees

\* A field keeps the invariant: the new item is empty, and so counts as no
\* length, or stands behind another of its name.
LEMMA FieldInv == IInv /\ Field => IInv'
<1> SUFFICES ASSUME IInv, Field PROVE IInv'
  OBVIOUS
<1>1. PICK n \in 0..Len(Text), ends \in BOOLEAN :
        HandsOut(n, ends) /\ on_http_parser_header_field(Piece(n))
  BY DEF Field
<1> DEFINE buf == Piece(n)
<1>2. buf \in Strings /\ << >> \in Strings /\ Text \in Strings
  BY <1>1, PieceType DEF IInv, Field, HandsOut, Strings
<1>3. headers \in KvList /\ HasFirsts(headers)
  BY DEF IInv, TypeOK, KvList, Strings
<1>4. headers' = clax_kv_list_push(headers, buf, << >>)
  BY <1>1 DEF on_http_parser_header_field
<1> HIDE DEF buf
<1>5. /\ headers' \in KvList
      /\ headers' # << >>
      /\ HasFirsts(headers')
      /\ \A q \in Strings : Has(headers', q) <=> Has(headers, q) \/ q = buf
      /\ \A q \in Strings : Has(headers, q) =>
           clax_kv_list_find(headers', q) = clax_kv_list_find(headers, q)
      /\ ~Has(headers, buf) => clax_kv_list_find(headers', buf) = << >>
  <2> DEFINE new == clax_kv_list_push(headers, buf, << >>)
  <2>1. /\ new \in KvList
        /\ new # << >>
        /\ new[Len(new)].key = buf
        /\ HasFirsts(new)
        /\ \A q \in Strings : Has(new, q) <=> Has(headers, q) \/ q = buf
        /\ \A q \in Strings : Has(headers, q) =>
             clax_kv_list_find(new, q) = clax_kv_list_find(headers, q)
        /\ ~Has(headers, buf) => clax_kv_list_find(new, buf) = << >>
    BY <1>2, <1>3, PushKeeps
  <2>2. headers' = new
    BY <1>4
  <2> HIDE DEF new
  <2> QED
    BY <2>1, <2>2, Zenon
<1>6. TypeOK'
  <2>1. /\ message' = message
        /\ content_length' = content_length
        /\ continue_expected' = continue_expected
    BY <1>1 DEF on_http_parser_header_field
  <2>2. /\ message' \in Messages
        /\ part' \in 0..(2 * Len(message')) /\ taken' \in Nat
        /\ whole' \in BOOLEAN
    BY <1>1, <1>2, <2>1, HandsOutType DEF IInv, Field
  <2> QED
    BY <1>5, <2>1, <2>2 DEF IInv, TypeOK, KvList, Strings
<1>7. LengthAgrees'
  <2>1. content_length' = content_length
    BY <1>1 DEF on_http_parser_header_field
  <2>2. ContentLength \in Strings
    BY NamesAssumption DEF Strings
  <2>3. LengthAgrees
    BY DEF IInv
  <2>4. atoi(<< >>) = 0
    BY NumberAssumption
  <2>5. CASE Has(headers, ContentLength)
    BY <1>5, <2>1, <2>2, <2>3, <2>5 DEF LengthAgrees, Found
  <2>6. CASE ~Has(headers, ContentLength) /\ buf # ContentLength
    BY <1>5, <2>1, <2>2, <2>3, <2>6 DEF LengthAgrees, Found
  <2>7. CASE ~Has(headers, ContentLength) /\ buf = ContentLength
    BY <1>5, <2>1, <2>2, <2>3, <2>4, <2>7 DEF LengthAgrees, Found
  <2> QED
    BY <2>5, <2>6, <2>7
<1> QED
  BY <1>5, <1>6, <1>7 DEF IInv

\* A value keeps it: it is set, and counted, under one name.
LEMMA ValueInv == IInv /\ Value => IInv'
<1> SUFFICES ASSUME IInv, Value PROVE IInv'
  OBVIOUS
<1>1. PICK n \in 0..Len(Text), ends \in BOOLEAN :
        HandsOut(n, ends) /\ on_http_parser_header_value(Piece(n))
  BY DEF Value
<1> DEFINE buf == Piece(n)
           key == headers[Len(headers)].key
<1>2. buf \in Strings
  BY <1>1, PieceType DEF IInv, Value, HandsOut
<1>3. headers \in KvList /\ HasFirsts(headers) /\ headers # << >>
  BY DEF IInv, TypeOK, KvList, Strings, Value
<1>4. key \in Strings /\ Has(headers, key)
  <2> DEFINE KV == [key : Strings, val : Strings]
             last == Len(headers)
  <2>1. last \in DOMAIN headers /\ headers[last] \in KV
    <3>1. headers \in Seq(KV) /\ headers # << >>
      BY <1>3 DEF KvList
    <3> HIDE DEF KV
    <3> QED
      BY <3>1
  <2>2. headers[last].key \in Strings
    BY <2>1
  <2> QED
    BY <2>1, <2>2 DEF Has
<1>5. /\ headers' = clax_kv_list_set(headers, key, buf)
      /\ content_length' = IF key = ContentLength THEN atoi(buf) ELSE content_length
      /\ continue_expected' = (continue_expected \/ (key = Expect /\ buf = Continue))
      /\ message' = message
  BY <1>1 DEF on_http_parser_header_value, clax_kv_list_at
<1> HIDE DEF buf, key
<1>6. /\ headers' \in KvList
      /\ Len(headers') = Len(headers)
      /\ HasFirsts(headers')
      /\ \A q \in Strings : Has(headers', q) <=> Has(headers, q)
      /\ \A q \in Strings : Has(headers, q) /\ q # key =>
           clax_kv_list_find(headers', q) = clax_kv_list_find(headers, q)
      /\ clax_kv_list_find(headers', key) = buf
  BY <1>2, <1>3, <1>4, <1>5, SetKeeps
<1>7. TypeOK'
  <2>1. Text \in Strings
    BY <1>1, PieceType DEF IInv, Value, HandsOut
  <2>2. /\ message' \in Messages
        /\ part' \in 0..(2 * Len(message')) /\ taken' \in Nat
        /\ whole' \in BOOLEAN
    BY <1>1, <1>5, <2>1, HandsOutType DEF IInv, Value
  <2>3. atoi(buf) \in Int
    BY <1>1, PieceNumber DEF IInv, Value, HandsOut, buf
  <2>4. content_length' \in Int /\ continue_expected' \in BOOLEAN
    BY <1>5, <2>3 DEF IInv, TypeOK
  <2> QED
    BY <1>6, <2>2, <2>4 DEF TypeOK, KvList, Strings
<1>8. LengthAgrees'
  <2>1. LengthAgrees
    BY DEF IInv
  <2>2. ContentLength \in Strings
    BY NamesAssumption DEF Strings
  <2>3. CASE key = ContentLength
    BY <1>4, <1>5, <1>6, <2>2, <2>3 DEF LengthAgrees, Found
  <2>4. CASE key # ContentLength /\ Has(headers, ContentLength)
    BY <1>5, <1>6, <2>1, <2>2, <2>4 DEF LengthAgrees, Found
  <2>5. CASE key # ContentLength /\ ~Has(headers, ContentLength)
    BY <1>5, <1>6, <2>1, <2>2, <2>5 DEF LengthAgrees, Found
  <2> QED
    BY <2>3, <2>4, <2>5
<1>9. headers' # << >>
  BY <1>3, <1>6 DEF KvList
<1> QED
  BY <1>6, <1>7, <1>8, <1>9 DEF IInv

\* The inductive invariant holds in every reachable state.
THEOREM HeadersInvariant == Spec => []IInv
<1>1. IInv /\ UNCHANGED vars => IInv'
  BY DEF IInv, TypeOK, LengthAgrees, Found, HasFirsts, Has, IsFirst, clax_kv_list_find,
     clax_kv_list_find_item, vars
<1>2. IInv /\ [Next]_vars => IInv'
  BY <1>1, FieldInv, ValueInv DEF Next
<1> QED
  BY InitInv, <1>2, PTL DEF Spec

\* The type invariant, for all messages and however they are cut.
THEOREM HeadersTyped == Spec => []TypeOK
<1>1. IInv => TypeOK
  BY DEF IInv
<1> QED
  BY HeadersInvariant, <1>1, PTL

\* The length that counts the body (content_length, clax_http_parser.c:115) is
\* the one in the list of headers, for all messages and however they are cut.
THEOREM LengthFollowsList == Spec => []LengthAgrees
<1>1. IInv => LengthAgrees
  BY DEF IInv
<1> QED
  BY HeadersInvariant, <1>1, PTL

-----------------------------------------------------------------------------
(* Headers none of which was cut.                                          *)

\* The headers handed out in full, and those of which the name was.
Valued == part \div 2
Named == (part + 1) \div 2

\* Where every text was handed out at once: the list has the names that were
\* seen and no others, the item at its end is the one that a value is next for,
\* and the last value of a name is the one found, up to the current header.
Whole ==
  /\ taken = 0
  /\ \A k \in Strings : Has(headers, k) <=> \E j \in 1..Named : message[j].name = k
  /\ part % 2 = 1 => headers[Len(headers)].key = Current.name
  /\ \A i \in 1..Valued :
       (\A j \in (i + 1)..Valued : message[j].name # message[i].name)
         => Found(message[i].name) = message[i].value

WInv == IInv /\ (whole => Whole) /\ ExpectAsSent

\* A step after which no text was cut hands out the current one.
LEMMA WholePiece ==
  ASSUME WInv, Read, NEW n \in 0..Len(Text), NEW ends \in BOOLEAN,
         HandsOut(n, ends), whole'
  PROVE  /\ whole /\ Whole /\ Piece(n) = Text /\ Text \in Strings
         /\ part' = part + 1 /\ taken' = 0
<1>1. whole /\ ends /\ n = Len(Text)
  BY DEF HandsOut
<1>2. Whole /\ taken = 0
  BY <1>1 DEF WInv, Whole
<1>3. Text \in Strings
  BY PieceType DEF WInv, IInv, HandsOut
<1>4. Piece(n) = SubSeq(Text, 1, Len(Text))
  BY <1>1, <1>2, <1>3 DEF Piece, Strings
<1>5. SubSeq(Text, 1, Len(Text)) = Text
  BY <1>3, SubSeqFull DEF Strings
<1>6. part' = part + 1 /\ taken' = 0
  BY <1>1 DEF HandsOut
<1> QED
  BY <1>1, <1>2, <1>3, <1>4, <1>5, <1>6

\* The headers of a message have names and values.
LEMMA MessageType ==
  ASSUME TypeOK
  PROVE  /\ Len(message) \in Nat
         /\ part \in Nat
         /\ \A i \in 1..Len(message) : message[i].name \in Strings /\ message[i].value \in Strings
<1>1. message \in Seq(Header)
  BY MessagesAssumption DEF TypeOK
<1>2. Len(message) \in Nat /\ part \in Nat
  BY <1>1 DEF TypeOK
<1>3. \A i \in 1..Len(message) : message[i] \in Header
  <2> HIDE DEF Header
  <2> QED
    BY <1>1
<1>4. \A h \in Header : h.name \in Strings /\ h.value \in Strings
  BY DEF Header, Strings
<1> QED
  BY <1>2, <1>3, <1>4

\* A field keeps it: the name is the one that was seen last, and the values of
\* the headers before it are found as they were.
LEMMA FieldWhole == WInv /\ Field => (whole' => Whole')
<1> SUFFICES ASSUME WInv, Field, whole' PROVE Whole'
  OBVIOUS
<1>1. PICK n \in 0..Len(Text), ends \in BOOLEAN :
        HandsOut(n, ends) /\ on_http_parser_header_field(Piece(n))
  BY DEF Field
<1> DEFINE d == part \div 2
           name == message[d + 1].name
<1>2. /\ whole /\ Whole /\ Piece(n) = Text /\ Text \in Strings
      /\ part' = part + 1 /\ taken' = 0
  BY <1>1, WholePiece DEF Field
<1>3. /\ part % 2 = 0 /\ part \in Nat /\ part < 2 * Len(message)
      /\ Len(message) \in Nat
      /\ \A i \in 1..Len(message) : message[i].name \in Strings
  BY MessageType DEF Field, Read, WInv, IInv
<1>4. /\ d \in Nat /\ d + 1 \in 1..Len(message)
      /\ Valued = d /\ Named = d
      /\ Valued' = d /\ Named' = d + 1
  BY <1>2, <1>3 DEF Valued, Named
<1>5. Text = name /\ Piece(n) = name /\ name \in Strings
  BY <1>2, <1>3 DEF Text, Current
<1>6. message' = message /\ headers' = clax_kv_list_push(headers, name, << >>)
  BY <1>1, <1>5 DEF on_http_parser_header_field
<1>7. headers \in KvList /\ HasFirsts(headers) /\ << >> \in Strings
  BY DEF WInv, IInv, TypeOK, KvList, Strings
<1>8. /\ headers'[Len(headers')].key = name
      /\ \A q \in Strings : Has(headers', q) <=> Has(headers, q) \/ q = name
      /\ \A q \in Strings : Has(headers, q) => Found(q)' = Found(q)
  <2> HIDE DEF name
  <2> DEFINE new == clax_kv_list_push(headers, name, << >>)
  <2>1. /\ new \in KvList
        /\ new # << >>
        /\ new[Len(new)].key = name
        /\ HasFirsts(new)
        /\ \A q \in Strings : Has(new, q) <=> Has(headers, q) \/ q = name
        /\ \A q \in Strings : Has(headers, q) =>
             clax_kv_list_find(new, q) = clax_kv_list_find(headers, q)
        /\ ~Has(headers, name) => clax_kv_list_find(new, name) = << >>
    <3>1. name \in Strings
      BY <1>5
    <3> QED
      BY <1>7, <3>1, PushKeeps
  <2>2. headers' = new
    BY <1>6
  <2> HIDE DEF new
  <2> QED
    BY <2>1, <2>2 DEF Found
<1>9. d + 1 = part' \div 2 + 1
  BY <1>4 DEF Valued
<1>10. Current'.name = name
  BY <1>6, <1>9 DEF Current
<1> HIDE DEF d
<1>11. ASSUME NEW k \in Strings
       PROVE  Has(headers', k) <=> \E j \in 1..(d + 1) : message[j].name = k
  <2>1. Has(headers, k) <=> \E j \in 1..d : message[j].name = k
    BY <1>2, <1>4 DEF Whole
  <2>2. 1..(d + 1) = 1..d \cup {d + 1}
    BY <1>4
  <2> QED
    BY <1>8, <2>1, <2>2
<1>12. ASSUME NEW i \in 1..d,
              \A j \in (i + 1)..d : message[j].name # message[i].name
       PROVE  Found(message[i].name)' = message[i].value
  <2>1. message[i].name \in Strings
    BY <1>3, <1>4
  <2>2. Has(headers, message[i].name) /\ Found(message[i].name) = message[i].value
    BY <1>2, <1>4, <1>12, <2>1 DEF Whole
  <2>3. \A q \in Strings : Has(headers, q) =>
          clax_kv_list_find(headers', q) = clax_kv_list_find(headers, q)
    BY <1>8 DEF Found
  <2> QED
    BY <1>6, <2>1, <2>2, <2>3 DEF Found
<1>13. \A i \in 1..d : (\A j \in (i + 1)..d : message'[j].name # message'[i].name)
         => clax_kv_list_find(headers', message'[i].name) = message'[i].value
  BY <1>6, <1>12 DEF Found
<1>14. \A k \in Strings : Has(headers', k) <=> \E j \in 1..(d + 1) : message'[j].name = k
  BY <1>6, <1>11
<1> QED
  BY <1>2, <1>4, <1>8, <1>10, <1>13, <1>14 DEF Whole, Found

\* A value keeps it: it is set under the name that was seen last, which is that
\* of its header.
LEMMA ValueWhole == WInv /\ Value => (whole' => Whole')
<1> SUFFICES ASSUME WInv, Value, whole' PROVE Whole'
  OBVIOUS
<1>1. PICK n \in 0..Len(Text), ends \in BOOLEAN :
        HandsOut(n, ends) /\ on_http_parser_header_value(Piece(n))
  BY DEF Value
<1> DEFINE d == part \div 2
           name == message[d + 1].name
           value == message[d + 1].value
<1>2. /\ whole /\ Whole /\ Piece(n) = Text /\ Text \in Strings
      /\ part' = part + 1 /\ taken' = 0
  BY <1>1, WholePiece DEF Value
<1>3. /\ part % 2 = 1 /\ part \in Nat /\ part < 2 * Len(message)
      /\ Len(message) \in Nat
      /\ \A i \in 1..Len(message) : message[i].name \in Strings
  BY MessageType DEF Value, Read, WInv, IInv
<1>4. /\ d \in Nat /\ d + 1 \in 1..Len(message)
      /\ Valued = d /\ Named = d + 1
      /\ Valued' = d + 1 /\ Named' = d + 1
      /\ part' % 2 # 1
  BY <1>2, <1>3 DEF Valued, Named
<1>5. Text = value /\ Piece(n) = value /\ value \in Strings
  BY <1>2, <1>3 DEF Text, Current
<1>6. name \in Strings /\ headers[Len(headers)].key = name
  BY <1>2, <1>3, <1>4 DEF Whole, Current
<1>7. message' = message /\ headers' = clax_kv_list_set(headers, name, value)
  BY <1>1, <1>5, <1>6 DEF on_http_parser_header_value, clax_kv_list_at
<1>8. headers \in KvList /\ HasFirsts(headers)
  BY DEF WInv, IInv, TypeOK, KvList, Strings
<1> HIDE DEF d
<1>9. \A k \in Strings : Has(headers, k) <=> \E j \in 1..(d + 1) : message[j].name = k
  BY <1>2, <1>4 DEF Whole
<1>10. Has(headers, name)
  BY <1>4, <1>6, <1>9
<1> HIDE DEF name, value
<1>11. /\ \A q \in Strings : Has(headers', q) <=> Has(headers, q)
       /\ \A q \in Strings : Has(headers, q) /\ q # name =>
            clax_kv_list_find(headers', q) = clax_kv_list_find(headers, q)
       /\ clax_kv_list_find(headers', name) = value
  <2> DEFINE new == clax_kv_list_set(headers, name, value)
  <2>1. /\ \A q \in Strings : Has(new, q) <=> Has(headers, q)
        /\ \A q \in Strings : Has(headers, q) /\ q # name =>
             clax_kv_list_find(new, q) = clax_kv_list_find(headers, q)
        /\ clax_kv_list_find(new, name) = value
    BY <1>5, <1>6, <1>8, <1>10, SetKeeps
  <2>2. headers' = new
    BY <1>7
  <2> HIDE DEF new
  <2> QED
    BY <2>1, <2>2
<1>12. ASSUME NEW i \in 1..(d + 1),
              \A j \in (i + 1)..(d + 1) : message[j].name # message[i].name
       PROVE  clax_kv_list_find(headers', message[i].name) = message[i].value
  <2>1. CASE i = d + 1
    BY <1>11, <2>1 DEF name, value
  <2>2. CASE i # d + 1
    <3>1. i \in 1..d /\ d + 1 \in (i + 1)..(d + 1)
      BY <1>4, <2>2
    <3>2. \A j \in (i + 1)..d : j \in (i + 1)..(d + 1)
      BY <1>4, <3>1
    <3>3. message[i].name \in Strings /\ message[i].name # name
      BY <1>3, <1>4, <1>12, <3>1 DEF name
    <3>4. Has(headers, message[i].name)
      BY <1>9, <3>3
    <3>5. clax_kv_list_find(headers, message[i].name) = message[i].value
      BY <1>2, <1>4, <1>12, <3>1, <3>2 DEF Whole, Found, Valued
    <3> QED
      BY <1>11, <3>3, <3>4, <3>5
  <2> QED
    BY <2>1, <2>2
<1>13. \A i \in 1..(d + 1) : (\A j \in (i + 1)..(d + 1) : message'[j].name # message'[i].name)
         => clax_kv_list_find(headers', message'[i].name) = message'[i].value
  BY <1>7, <1>12
<1>14. \A k \in Strings : Has(headers', k) <=> \E j \in 1..(d + 1) : message'[j].name = k
  BY <1>7, <1>9, <1>11
<1> QED
  BY <1>2, <1>4, <1>13, <1>14 DEF Whole, Found

\* A name says nothing of a 100; a value that was not cut does, under the name
\* of its header.
LEMMA ExpectKept == WInv /\ Next => ExpectAsSent'
<1> DEFINE Said(i) == message[i].name = Expect /\ message[i].value = Continue
<1> SUFFICES ASSUME WInv, Next, whole'
             PROVE  (continue_expected <=> \E i \in 1..Valued : Said(i))'
  BY DEF ExpectAsSent, Valued
<1>1. /\ part \in Nat /\ Len(message) \in Nat
  BY MessageType DEF WInv, IInv
<1>2. CASE Field
  <2>1. PICK n \in 0..Len(Text), ends \in BOOLEAN :
          HandsOut(n, ends) /\ on_http_parser_header_field(Piece(n))
    BY <1>2 DEF Field
  <2>2. whole /\ part' = part + 1
    BY <1>2, <2>1, WholePiece DEF Field
  <2>3. message' = message /\ continue_expected' = continue_expected
    BY <2>1 DEF on_http_parser_header_field
  <2>4. Valued' = Valued
    BY <1>1, <1>2, <2>2 DEF Field, Valued
  <2>5. continue_expected <=> \E i \in 1..Valued : Said(i)
    BY <2>2 DEF WInv, ExpectAsSent, Valued
  <2> QED
    BY <2>3, <2>4, <2>5
<1>3. CASE Value
  <2>1. PICK n \in 0..Len(Text), ends \in BOOLEAN :
          HandsOut(n, ends) /\ on_http_parser_header_value(Piece(n))
    BY <1>3 DEF Value
  <2>2. whole /\ Whole /\ Piece(n) = Text /\ part' = part + 1
    BY <1>3, <2>1, WholePiece DEF Value
  <2>3. /\ part % 2 = 1 /\ Text = Current.value
        /\ headers[Len(headers)].key = Current.name
    BY <1>3, <2>2 DEF Value, Text, Whole
  <2>4. /\ Valued \in Nat
        /\ 1..Valued' = 1..Valued \cup {Valued + 1}
        /\ Current = message[Valued + 1]
    BY <1>1, <2>2, <2>3 DEF Valued, Current
  <2>5. message' = message
    BY <2>1 DEF on_http_parser_header_value
  <2>6. continue_expected' <=> continue_expected \/ Said(Valued + 1)
    BY <2>1, <2>2, <2>3, <2>4 DEF on_http_parser_header_value, clax_kv_list_at
  <2>7. continue_expected <=> \E i \in 1..Valued : Said(i)
    BY <2>2 DEF WInv, ExpectAsSent, Valued
  <2> QED
    BY <2>4, <2>5, <2>6, <2>7
<1> QED
  BY <1>2, <1>3 DEF Next

\* The invariant of headers none of which was cut holds in every reachable state.
LEMMA WholeInvariant == Spec => []WInv
<1>1. Init => WInv
  <2> SUFFICES ASSUME Init PROVE WInv
    OBVIOUS
  <2>1. Valued = 0 /\ Named = 0 /\ part % 2 # 1
    BY DEF Init, Valued, Named
  <2>2. \A k : ~Has(headers, k)
    BY DEF Init, Has
  <2>3. Whole
    BY <2>1, <2>2 DEF Init, Whole
  <2>4. ExpectAsSent
    BY <2>1 DEF Init, ExpectAsSent, Valued
  <2> QED
    BY <2>3, <2>4, InitInv DEF WInv
<1>2. WInv /\ [Next]_vars => WInv'
  <2>1. WInv /\ Next => WInv'
    BY FieldInv, ValueInv, FieldWhole, ValueWhole, ExpectKept DEF Next, WInv
  <2>2. WInv /\ UNCHANGED vars => WInv'
    <3> SUFFICES ASSUME WInv, UNCHANGED vars PROVE WInv'
      OBVIOUS
    <3>1. IInv'
      BY DEF WInv, IInv, TypeOK, LengthAgrees, Found, HasFirsts, Has, IsFirst,
         clax_kv_list_find, clax_kv_list_find_item, vars
    <3>2. whole' => Whole'
      <4>1. /\ headers' = headers /\ message' = message /\ taken' = taken
            /\ part' = part /\ whole' = whole
        BY DEF vars
      <4>2. Valued' = Valued /\ Named' = Named /\ Current' = Current
        BY <4>1 DEF Valued, Named, Current
      <4>3. SUFFICES ASSUME Whole PROVE Whole'
        BY <4>1 DEF WInv
      <4> QED
        <5>1. \A k \in Strings : Has(headers', k) <=> \E j \in 1..Named' : message'[j].name = k
          BY <4>1, <4>2, <4>3 DEF Whole
        <5>2. part' % 2 = 1 => headers'[Len(headers')].key = Current'.name
          BY <4>1, <4>2, <4>3 DEF Whole
        <5>3. \A i \in 1..Valued' :
                (\A j \in (i + 1)..Valued' : message'[j].name # message'[i].name)
                  => clax_kv_list_find(headers', message'[i].name) = message'[i].value
          BY <4>1, <4>2, <4>3 DEF Whole, Found
        <5>4. taken' = 0
          BY <4>1, <4>3 DEF Whole
        <5> QED
          BY <5>1, <5>2, <5>3, <5>4 DEF Whole, Found
    <3>3. ExpectAsSent'
      BY DEF WInv, ExpectAsSent, vars
    <3> QED
      BY <3>1, <3>2, <3>3 DEF WInv
  <2> QED
    BY <2>1, <2>2
<1> QED
  BY <1>1, <1>2, PTL DEF Spec

\* The last of the headers of one name is the one that is found (the value is set
\* in the first item of the name, clax_http_parser.c:113), for all messages none
\* of whose headers was cut.
THEOREM LastIsFound == Spec => []LastValueFound
<1>1. WInv => LastValueFound
  <2> SUFFICES ASSUME WInv, whole, Done, NEW i \in DOMAIN message,
                      \A j \in (i + 1)..Len(message) : message[j].name # message[i].name
               PROVE  Has(headers, message[i].name) /\ Found(message[i].name) = message[i].value
    BY DEF LastValueFound
  <2>1. /\ Len(message) \in Nat /\ i \in 1..Len(message)
        /\ message[i].name \in Strings
    <3>1. message \in Seq(Header)
      BY MessagesAssumption DEF WInv, IInv, TypeOK
    <3>2. i \in 1..Len(message)
      BY <3>1
    <3> QED
      BY <3>2, MessageType DEF WInv, IInv
  <2>2. Valued = Len(message) /\ Named = Len(message)
    BY <2>1 DEF Done, Valued, Named
  <2>3. Whole
    BY DEF WInv
  <2> QED
    BY <2>1, <2>2, <2>3 DEF Whole
<1> QED
  BY WholeInvariant, <1>1, PTL

\* A 100 is expected if and only if a header said so (clax_http_parser.c:118),
\* for all messages none of whose headers was cut.
THEOREM ExpectedAsSent == Spec => []ExpectAsSent
<1>1. WInv => ExpectAsSent
  BY DEF WInv
<1> QED
  BY WholeInvariant, <1>1, PTL
=============================================================================
