--------------------------------- MODULE Wire ---------------------------------
(***************************************************************************)
(* internal/dns/wire.go and message.go: DNS messages and their octets.     *)
(*                                                                         *)
(* A buffer is a sequence of octets; offsets count from zero, as in the    *)
(* code.  Text is the sequence of its octets.  A 16-bit number is itself,  *)
(* a 32-bit number the pair of its halves (TLC's integers end at 2^31).    *)
(* The text of an address stands for what net.ParseIP makes of it: sixteen *)
(* octets.  Functions that may fail return Ok(value) or Fails.             *)
(***************************************************************************)
EXTENDS Integers, Sequences, SequencesExt, Lists

CONSTANTS MaxJumps,    \* pointers a name may go through (128)
          MaxLabel     \* octets of a label that is encoded (63)

\* The length of a label is not taken for a pointer.
ASSUME JumpsAssumption == MaxJumps \in Nat /\ MaxLabel \in 0..191

Fails == [ok |-> FALSE]
Ok(v) == [ok |-> TRUE, val |-> v]
OkAt(v, after) == [ok |-> TRUE, val |-> v, after |-> after]

\* `if err != nil { return err }`, then the rest.
Then(r, Rest(_)) == IF r.ok THEN Rest(r) ELSE Fails

Dot == 46                                     \* "."
ClassIN == 1

\* RRType.  NoData is the nil of a record whose part is missing.
A == 1
NS == 2
CNAME == 5
SOA == 6
PTR == 12
MX == 15
TXT == 16
AAAA == 28
SRV == 33
CAA == 257
NoData == <<>>

\* The types whose data is some 16-bit numbers and a name: how many numbers.
Words == [t \in {NS, CNAME, PTR, MX, SRV} |->
            IF t = MX THEN 1 ELSE IF t = SRV THEN 3 ELSE 0]

Octets == Seq(0..255)
Word16 == {n \in Nat : n < 65536}
Word32 == Word16 \X Word16

U16(n) == <<n \div 256, n % 256>>
U32(pair) == U16(pair[1]) \o U16(pair[2])
Octet(buf, off) == buf[off + 1]
Slice(buf, from, to) == SubSeq(buf, from + 1, to)          \* buf[from:to]
U16At(buf, off) == 256 * Octet(buf, off) + Octet(buf, off + 1)
U32At(buf, off) == <<U16At(buf, off), U16At(buf, off + 2)>>

------------------------------------------------------------------------------
(* Names. *)

\* A dot before each label, but not before the first.
Join(labels) ==
  IF labels = <<>> THEN <<>> ELSE Tail(FlattenSeq([i \in DOMAIN labels |-> <<Dot>> \o labels[i]]))

\* A label ends before a dot or at the end.
SplitAtDots(name) ==
  LET ends == Ascending({i \in DOMAIN name : name[i] = Dot} \union {Len(name) + 1}) IN
  [k \in DOMAIN ends |-> SubSeq(name, IF k = 1 THEN 1 ELSE ends[k - 1] + 1, ends[k] - 1)]

EndsInDot(name) == name # <<>> /\ Last(name) = Dot
TrimDot(name) == IF EndsInDot(name) THEN Front(name) ELSE name

EncodeName(name) ==
  LET labels == SplitAtDots(TrimDot(name)) IN
  IF TrimDot(name) = <<>> THEN Ok(<<0>>)
  ELSE IF \E i \in DOMAIN labels : Len(labels[i]) \notin 1..MaxLabel THEN Fails
  ELSE Ok(FlattenSeq([i \in DOMAIN labels |-> <<Len(labels[i])>> \o labels[i]]) \o <<0>>)

IsPointer(octet) == octet >= 192
PointerTarget(buf, off) == (Octet(buf, off) % 64) * 256 + Octet(buf, off + 1)

\* Mutant: the next field is looked for where the chain of pointers ended.
PassToEnd(buf, s) ==
  LET o == Octet(buf, s.cur)
      Return(out) == [s EXCEPT !.over = TRUE, !.out = out]
  IN  IF s.over THEN s
      ELSE IF s.cur >= Len(buf) THEN Return(Fails)
      ELSE IF o = 0 THEN Return(OkAt(Join(s.labels), s.cur + 1))
      ELSE IF IsPointer(o)
      THEN IF s.cur + 1 >= Len(buf) \/ s.jumps = MaxJumps THEN Return(Fails)
           ELSE [s EXCEPT !.cur = PointerTarget(buf, s.cur), !.jumps = @ + 1]
      ELSE IF s.cur + 1 + o > Len(buf) THEN Return(Fails)
      ELSE [s EXCEPT !.cur = @ + 1 + o, !.labels = Append(@, Slice(buf, s.cur + 1, s.cur + 1 + o))]

\* The loop of readName once, unless it is over.  A length of 64 to 191 is a length.
NamePass(buf, s) ==
  LET o == Octet(buf, s.cur)
      Return(out) == [s EXCEPT !.over = TRUE, !.out = out]
  IN  IF s.over THEN s
      ELSE IF s.cur >= Len(buf) THEN Return(Fails)
      ELSE IF o = 0
      THEN Return(OkAt(Join(s.labels), IF s.origOff = -1 THEN s.cur + 1 ELSE s.origOff))
      ELSE IF IsPointer(o)
      THEN IF s.cur + 1 >= Len(buf) \/ s.jumps = MaxJumps THEN Return(Fails)
           ELSE [s EXCEPT !.cur = PointerTarget(buf, s.cur), !.jumps = @ + 1,
                          !.origOff = IF @ = -1 THEN s.cur + 2 ELSE @]
      ELSE IF s.cur + 1 + o > Len(buf) THEN Return(Fails)
      ELSE [s EXCEPT !.cur = @ + 1 + o, !.labels = Append(@, Slice(buf, s.cur + 1, s.cur + 1 + o))]

\* readName before each pass of its loop.
NameLoop(buf, off) ==
  LET s[pass \in Nat] ==
        IF pass = 0 THEN [cur |-> off, jumps |-> 0, origOff |-> -1, labels |-> <<>>,
                          over |-> FALSE, out |-> Fails]
        ELSE NamePass(buf, s[pass - 1])
  IN  s

\* The loop has no bound, but it is over within so many passes: between two jumps
\* it goes forward.
MaxPasses(buf) == (MaxJumps + 1) * (Len(buf) + 1)

\* readName: the name at off and the offset after it, which is the one after
\* the first pointer if there is one.
ReadName(buf, off) ==
  LET s == NameLoop(buf, off) IN s[CHOOSE pass \in 0..MaxPasses(buf) : s[pass].over].out

------------------------------------------------------------------------------
(* Records: [name, type, ttl, data], data as the type has it. *)

\* What a record of a type holds.  That there are sixteen octets of an address, or any
\* data, is for the encoder to see.
DataOf(type) ==
  CASE type \in {A, AAAA} -> Octets
    [] type = TXT -> Seq(Octets)
    [] type \in DOMAIN Words ->
         {NoData} \union [words : [1..Words[type] -> Word16], name : Octets]
    [] type = CAA -> {NoData} \union [flag : 0..255, tag : Octets, value : Octets]
    [] type = SOA -> {NoData} \union [mname : Octets, rname : Octets, numbers : [1..5 -> Word32]]
    [] OTHER -> {NoData}

IsRecord(rr) == rr \in [name : Octets, type : Word16, ttl : Word32, data : DataOf(rr.type)]

\* net.IP's To4 and its inverse: the sixteen octets of an IPv4 address.
V4Prefix == [i \in 1..10 |-> 0] \o <<255, 255>>
IsV4(ip) == Len(ip) = 16 /\ SubSeq(ip, 1, 12) = V4Prefix

\* The octets of a list whose items have been encoded, unless one of them failed.
EncodeAll(items) ==
  IF \E i \in DOMAIN items : ~items[i].ok THEN Fails
  ELSE Ok(FlattenSeq([i \in DOMAIN items |-> items[i].val]))

\* The switch of encodeRecord.
EncodeData(type, data) ==
  CASE type = A -> IF IsV4(data) THEN Ok(SubSeq(data, 13, 16)) ELSE Fails
    [] type = AAAA -> IF Len(data) = 16 THEN Ok(data) ELSE Fails
    [] type = TXT ->
         EncodeAll([i \in DOMAIN data |-> IF Len(data[i]) > 255 THEN Fails
                                          ELSE Ok(<<Len(data[i])>> \o data[i])])
    [] type \in DOMAIN Words /\ data # NoData ->
         Then(EncodeName(data.name), LAMBDA n :
           Ok(FlattenSeq([i \in DOMAIN data.words |-> U16(data.words[i])]) \o n.val))
    [] type = CAA /\ data # NoData ->
         Ok(<<data.flag, Len(data.tag) % 256>> \o data.tag \o data.value)
    [] type = SOA /\ data # NoData ->
         Then(EncodeAll(<<EncodeName(data.mname), EncodeName(data.rname)>>), LAMBDA names :
           Ok(names.val \o FlattenSeq([i \in DOMAIN data.numbers |-> U32(data.numbers[i])])))
    [] OTHER -> Fails

EncodeRecord(rr) ==
  Then(EncodeName(rr.name), LAMBDA n : Then(EncodeData(rr.type, rr.data), LAMBDA d :
    Ok(n.val \o U16(rr.type) \o U16(ClassIN) \o U32(rr.ttl) \o U16(Len(d.val) % 65536) \o d.val)))

\* The loop of decodeTXT, unless it is over: what has been read, and up to where.
TextPass(rdata, done) ==
  LET end == done.after + 1 + Octet(rdata, done.after) IN
  IF done.after >= Len(rdata) THEN done
  ELSE IF end > Len(rdata) THEN Fails
  ELSE OkAt(Append(done.val, Slice(rdata, done.after + 1, end)), end)

TextLoop(rdata) ==
  LET read[pass \in Nat] ==
        IF pass = 0 THEN OkAt(<<>>, 0)
        ELSE Then(read[pass - 1], LAMBDA done : TextPass(rdata, done))
  IN  read

\* Every pass takes an octet.
DecodeTXT(rdata) == Then(TextLoop(rdata)[Len(rdata)], LAMBDA done : Ok(done.val))

\* The switch of readRecord, for the data rdata at start.  A name in it is read in
\* the whole message and may end behind the data; the SOA's numbers are only held
\* against the end of the message.  Other types keep no data.
ReadData(buf, type, start, rdata) ==
  CASE type = A -> IF Len(rdata) = 4 THEN Ok(V4Prefix \o rdata) ELSE Fails
    [] type = AAAA -> IF Len(rdata) = 16 THEN Ok(rdata) ELSE Fails
    [] type = TXT -> DecodeTXT(rdata)
    [] type \in DOMAIN Words ->
         IF Len(rdata) < 2 * Words[type] THEN Fails
         ELSE Then(ReadName(buf, start + 2 * Words[type]), LAMBDA n :
                Ok([words |-> [i \in 1..Words[type] |-> U16At(rdata, 2 * (i - 1))], name |-> n.val]))
    [] type = CAA ->
         IF Len(rdata) < 2 \/ 2 + Octet(rdata, 1) > Len(rdata) THEN Fails
         ELSE Ok([flag |-> Octet(rdata, 0), tag |-> Slice(rdata, 2, 2 + Octet(rdata, 1)),
                  value |-> Slice(rdata, 2 + Octet(rdata, 1), Len(rdata))])
    [] type = SOA ->
         Then(ReadName(buf, start), LAMBDA m : Then(ReadName(buf, m.after), LAMBDA r :
           IF r.after + 20 > Len(buf) THEN Fails
           ELSE Ok([mname |-> m.val, rname |-> r.val,
                    numbers |-> [i \in 1..5 |-> U32At(buf, r.after + 4 * (i - 1))]])))
    [] OTHER -> Ok(NoData)

\* Mutant: the next record is looked for behind the fixed part of this one.
ReadRestAndStay(buf, name, off) ==
  LET start == off + 10
      end == start + U16At(buf, off + 8)
  IN  IF end > Len(buf) THEN Fails
      ELSE Then(ReadData(buf, U16At(buf, off), start, Slice(buf, start, end)), LAMBDA d :
             OkAt([name |-> name, type |-> U16At(buf, off), ttl |-> U32At(buf, off + 4),
                   data |-> d.val], start))

\* What follows a record's name, at off; the length is that of its data.  Wherever
\* the names in the data end, the next record is behind the data.
ReadRest(buf, name, off) ==
  LET start == off + 10
      end == start + U16At(buf, off + 8)
  IN  IF end > Len(buf) THEN Fails
      ELSE Then(ReadData(buf, U16At(buf, off), start, Slice(buf, start, end)), LAMBDA d :
             OkAt([name |-> name, type |-> U16At(buf, off), ttl |-> U32At(buf, off + 4),
                   data |-> d.val], end))

ReadRecord(buf, off) ==
  Then(ReadName(buf, off), LAMBDA n :
    IF n.after + 10 > Len(buf) THEN Fails ELSE ReadRest(buf, n.val, n.after))

ReadQuestion(buf, off) ==
  Then(ReadName(buf, off), LAMBDA n :
    IF n.after + 4 > Len(buf) THEN Fails
    ELSE OkAt([name |-> n.val, type |-> U16At(buf, n.after)], n.after + 4))

\* The loop over the questions and those of readRecords, before each item.
ItemPass(buf, isQuestion, done) ==
  Then(IF isQuestion THEN ReadQuestion(buf, done.after) ELSE ReadRecord(buf, done.after),
       LAMBDA x : OkAt(Append(done.val, x.val), x.after))

ItemLoop(buf, questions) ==
  LET read[i \in Nat] ==
        IF i = 0 THEN OkAt(<<>>, 12)
        ELSE Then(read[i - 1], LAMBDA done : ItemPass(buf, i <= questions, done))
  IN  read

\* The counted items one after the other, up to the first that fails.
ReadItems(buf, questions, total) ==
  LET read == ItemLoop(buf, questions) IN
  read[CHOOSE i \in 0..total : i = total \/ ~read[i].ok]

------------------------------------------------------------------------------
(* Messages. *)

Bit(b, weight) == IF b THEN weight ELSE 0
HasBit(word, weight) == (word \div weight) % 2 = 1

FlagWord(m) ==
  Bit(m.response, 32768) + (m.opcode % 16) * 2048 + Bit(m.authoritative, 1024)
  + Bit(m.truncated, 512) + Bit(m.recursionDesired, 256) + Bit(m.recursionAvailable, 128)
  + (m.rcode % 16)

EncodeQuestion(q) ==
  Then(EncodeName(q.name), LAMBDA n : Ok(n.val \o U16(q.type) \o U16(ClassIN)))

RecordsOf(m) == m.answers \o m.authority \o m.additional

\* A list is one of its own items; each is looked at by IsRecord.
IsMessage(m) ==
  /\ m \in [id : Word16, response : BOOLEAN, opcode : 0..15, authoritative : BOOLEAN,
            truncated : BOOLEAN, recursionDesired : BOOLEAN, recursionAvailable : BOOLEAN,
            rcode : 0..15, questions : Seq([name : Octets, type : Word16]),
            answers : Seq(ToSet(m.answers)), authority : Seq(ToSet(m.authority)),
            additional : Seq(ToSet(m.additional))]
  /\ \A rr \in ToSet(RecordsOf(m)) : IsRecord(rr)

Marshal(m) ==
  LET Count(list) == U16(Len(list) % 65536) IN
  Then(EncodeAll([i \in DOMAIN m.questions |-> EncodeQuestion(m.questions[i])]), LAMBDA qs :
    Then(EncodeAll([i \in DOMAIN RecordsOf(m) |-> EncodeRecord(RecordsOf(m)[i])]), LAMBDA rrs :
      Ok(U16(m.id) \o U16(FlagWord(m)) \o Count(m.questions) \o Count(m.answers)
           \o Count(m.authority) \o Count(m.additional) \o qs.val \o rrs.val)))

\* How many items there are up to the end of each section.
SectionEnds(buf) ==
  LET upTo[s \in 0..4] == IF s = 0 THEN 0 ELSE upTo[s - 1] + U16At(buf, 2 + 2 * s) IN upTo

Unmarshal(buf) ==
  IF Len(buf) < 12 THEN Fails
  ELSE LET flags == U16At(buf, 2)
           upTo == SectionEnds(buf)
       IN  Then(ReadItems(buf, upTo[1], upTo[4]), LAMBDA items :
             LET Section(s) == SubSeq(items.val, upTo[s - 1] + 1, upTo[s]) IN
             Ok([id |-> U16At(buf, 0), response |-> HasBit(flags, 32768),
                 opcode |-> (flags \div 2048) % 16, authoritative |-> HasBit(flags, 1024),
                 truncated |-> HasBit(flags, 512), recursionDesired |-> HasBit(flags, 256),
                 recursionAvailable |-> HasBit(flags, 128), rcode |-> flags % 16,
                 questions |-> Section(1), answers |-> Section(2), authority |-> Section(3),
                 additional |-> Section(4)]))

\* NewQuery: what nett itself sends.
NewQuery(id, name, type) ==
  [id |-> id, response |-> FALSE, opcode |-> 0, authoritative |-> FALSE, truncated |-> FALSE,
   recursionDesired |-> TRUE, recursionAvailable |-> FALSE, rcode |-> 0,
   questions |-> <<[name |-> TrimDot(name), type |-> type]>>,
   answers |-> <<>>, authority |-> <<>>, additional |-> <<>>]
==============================================================================
