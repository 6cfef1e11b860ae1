------------------------------ MODULE EvmCodec -------------------------------
(***************************************************************************)
(* The encodings of the chain: ABI arguments and their decoding from logs, *)
(* RLP transactions, and the integers both are made of.  As in             *)
(* OrderAmounts, one step applies a function to an input and the property  *)
(* compares it with a definition that does not use its algorithm: a reader *)
(* of the format, or arithmetic on the number itself.                      *)
(*                                                                         *)
(* Bytes are 0..255.  A word has WordSize of them (32 in the code), and a  *)
(* size_t or a uint64_t ends at HostMax.  A call that throws is NotOk.     *)
(***************************************************************************)
EXTENDS Integers, Sequences, FiniteSets, SequencesExt

CONSTANTS
    WordSize,    \* kWordSize
    AddressSize, \* bytes of an address
    HostMax,     \* the largest size_t, and the largest uint64_t
    Codings      \* the calls to try, one record each

VARIABLES coding, coded

vars == <<coding, coded>>

Ok(v) == [ok |-> TRUE, v |-> v]
NotOk == [ok |-> FALSE, v |-> <<>>]
Zeros(n) == [i \in 1..n |-> 0]
Digits(s) == [i \in 1..(2 * Len(s)) |-> IF i % 2 = 1 THEN s[(i + 1) \div 2] \div 16 ELSE s[i \div 2] % 16]
Bytes(s) == [i \in 1..(Len(s) \div 2) |-> s[2 * i - 1] * 16 + s[2 * i]]
WithoutZeros(s) == LET used == {i \in DOMAIN s : s[i] # 0} IN
                   IF used = {} THEN <<>> ELSE SubSeq(s, Min(used), Len(s))

-----------------------------------------------------------------------------
(* uint256_word *)
Uint256Word(n) == [i \in 1..WordSize |-> (n \div (256 ^ (WordSize - i))) % 256]

(* decimal_to_word: every digit multiplies the word by ten; a carry out of it is too much. *)
TimesTen(word, digit) ==
    FoldLeft(LAMBDA acc, byte : LET next == byte * 10 + acc.carry
                                IN [bytes |-> <<next % 256>> \o acc.bytes, carry |-> next \div 256],
             [bytes |-> <<>>, carry |-> digit], Reverse(word))
DecimalToWord(digits) ==
    FoldLeft(LAMBDA acc, d : LET next == TimesTen(acc.v, d) IN
                             IF ~acc.ok \/ next.carry # 0 THEN NotOk ELSE Ok(next.bytes),
             Ok(Zeros(WordSize)), digits)

(* hex_to_word: the digits without their zeros, on an even number of places. *)
PaddedWord(bytes) == Ok(Zeros(WordSize - Len(bytes)) \o bytes)
EvenHexToWord(used) ==
    IF Len(used) > 2 * WordSize THEN NotOk
    ELSE PaddedWord(Bytes(IF Len(used) % 2 = 0 THEN used ELSE <<0>> \o used))
HexToWord(digits) == EvenHexToWord(WithoutZeros(digits))

ParseUint256Word(text) ==
    IF text.digits = <<>> THEN NotOk
    ELSE IF text.hex THEN HexToWord(text.digits) ELSE DecimalToWord(text.digits)

(* unsigned_integer(text, bits) *)
CheckFits(word, size) == \A i \in 1..(WordSize - size) : word[i] = 0
Fitting(word, size) == IF word.ok /\ CheckFits(word.v, size) THEN word ELSE NotOk
UnsignedInteger(text, size) == Fitting(ParseUint256Word(text), size)

(* decimal_mul_add, without the leading zeros. *)
Carried(carry) ==
    IF carry = 0 THEN <<>> ELSE IF carry < 10 THEN <<carry>> ELSE <<carry \div 10, carry % 10>>
Shown(digits) == IF digits = <<>> THEN <<0>> ELSE digits
Trimmed(sum) == Shown(WithoutZeros(Carried(sum.carry) \o sum.digits))
MulAddDigit(acc, next) == [digits |-> <<next % 10>> \o acc.digits, carry |-> next \div 10]
DecimalMulAdd(decimal, mul, add) ==
    Trimmed(FoldLeft(LAMBDA acc, d : MulAddDigit(acc, d * mul + acc.carry),
                     [digits |-> <<>>, carry |-> add], Reverse(decimal)))
PositiveHexToDecimal(digits) == FoldLeft(LAMBDA acc, d : DecimalMulAdd(acc, 16, d), <<0>>, digits)

(* twos_complement_abs: every digit inverted, and one added. *)
TwosComplementAbs(digits) ==
    FoldLeft(LAMBDA acc, d : LET next == (15 - d) + acc.carry
                             IN [digits |-> <<next % 16>> \o acc.digits, carry |-> next \div 16],
             [digits |-> <<>>, carry |-> 1], Reverse(digits)).digits
SignedDecimal(digits) ==
    IF digits[1] < 8 THEN [sign |-> 1, digits |-> PositiveHexToDecimal(digits)]
    ELSE [sign |-> -1, digits |-> PositiveHexToDecimal(TwosComplementAbs(digits))]
IntWordToDecimal(word) == SignedDecimal(Digits(word))

(* abi_word_to_size: the test that keeps value * 16 + digit below HostMax. *)
AbiWordToSize(word) ==
    FoldLeft(LAMBDA acc, d : IF ~acc.ok \/ acc.v > ((HostMax - d) \div 16) THEN NotOk
                             ELSE Ok(acc.v * 16 + d), Ok(0), Digits(word))

WordToAddress(word) ==
    IF \A i \in 1..(WordSize - AddressSize) : word[i] = 0
    THEN Ok(SubSeq(word, WordSize - AddressSize + 1, WordSize)) ELSE NotOk

-----------------------------------------------------------------------------
(* EvmAbiValue: [kind, data] for a word and for bytes, [kind, children] for the others. *)
RECURSIVE IsDynamic(_), AppendEncoding(_), AppendSequence(_)

IsDynamic(value) ==
    \/ value.kind \in {"bytes", "array"}
    \/ value.kind = "tuple" /\ \E i \in DOMAIN value.children : IsDynamic(value.children[i])

AppendPadded(data) ==
    data \o (IF Len(data) % WordSize = 0 THEN <<>> ELSE Zeros(WordSize - (Len(data) % WordSize)))

AppendEncoding(value) ==
    CASE value.kind = "word" -> value.data
      [] value.kind = "bytes" -> Uint256Word(Len(value.data)) \o AppendPadded(value.data)
      [] value.kind = "array" -> Uint256Word(Len(value.children)) \o AppendSequence(value.children)
      [] OTHER -> AppendSequence(value.children)

Total(lengths) == FoldLeft(LAMBDA a, b : a + b, 0, lengths)

(* Mutant: every member is counted as one word of the head. *)
HeadSizeInWords(values, encoded) == WordSize * Len(values)

HeadSize(values, encoded) ==
    Total([i \in DOMAIN values |-> IF IsDynamic(values[i]) THEN WordSize ELSE Len(encoded[i])])

(* Head and tail: static members inline, dynamic ones as an offset into the tail. *)
HeadAndTail(values, encoded, tail, size) ==
    LET offset(i) == size + Total([j \in 1..(i - 1) |-> Len(tail[j])])
    IN FlattenSeq([i \in DOMAIN values |-> IF IsDynamic(values[i]) THEN Uint256Word(offset(i)) ELSE encoded[i]])
       \o FlattenSeq(tail)
SequenceOf(values, encoded) ==
    HeadAndTail(values, encoded,
                [i \in DOMAIN values |-> IF IsDynamic(values[i]) THEN encoded[i] ELSE <<>>],
                HeadSize(values, encoded))
AppendSequence(values) == SequenceOf(values, [i \in DOMAIN values |-> AppendEncoding(values[i])])

-----------------------------------------------------------------------------
(* evm_data_words *)
DataWords(data) ==
    IF Len(data) % WordSize # 0 THEN NotOk
    ELSE Ok([i \in 1..(Len(data) \div WordSize) |-> SubSeq(data, (i - 1) * WordSize + 1, i * WordSize)])

(* evm_decode_uint_array; `index' counts from 0. *)
ArrayItems(words, at, length) ==
    IF ~length.ok THEN NotOk
    ELSE IF length.v > Len(words) - at - 1 THEN NotOk
    ELSE Ok([i \in 1..length.v |-> words[at + 1 + i]])
ArrayAt(words, heads, offset) ==
    IF ~offset.ok THEN NotOk
    ELSE IF offset.v % WordSize # 0 \/ offset.v \div WordSize \notin heads..(Len(words) - 1) THEN NotOk
    ELSE ArrayItems(words, offset.v \div WordSize, AbiWordToSize(words[(offset.v \div WordSize) + 1]))
ArrayIn(words, index, heads) ==
    IF ~words.ok THEN NotOk
    ELSE IF index >= Len(words.v) \/ heads <= index \/ heads > Len(words.v) THEN NotOk
    ELSE ArrayAt(words.v, heads, AbiWordToSize(words.v[index + 1]))
DecodeUintArray(data, index, heads) == ArrayIn(DataWords(data), index, heads)

(* decode_polymarket_event: the ids are topics, the payouts an array of the data, and an
   address that is none is refused. *)
Topic(log, n) == IF Len(log.topics) > n THEN log.topics[n + 1] ELSE <<>>
DataWord(words, n, least) == IF words.ok /\ Len(words.v) >= least THEN words.v[n] ELSE <<>>
Decoded(array, addresses, event) ==
    IF array.ok /\ \A a \in addresses : a = <<>> \/ WordToAddress(a).ok
    THEN Ok([event EXCEPT !.array = array.v]) ELSE NotOk
ArrayHead(kind) == IF kind \in {"resolved", "manual"} THEN [index |-> 0, heads |-> 1]
                   ELSE [index |-> 1, heads |-> IF kind = "condition" THEN 2 ELSE 3]
ArrayOf(log, words) ==
    CASE log.kind = "initialized" -> IF words.ok THEN Ok(<<>>) ELSE NotOk
      [] log.kind \in {"resolved", "manual", "condition", "redemption"} ->
            ArrayIn(words, ArrayHead(log.kind).index, ArrayHead(log.kind).heads)
      [] OTHER -> Ok(<<>>)
Addresses(log, words) ==
    CASE log.kind = "initialized" -> {Topic(log, 3), DataWord(words, 2, 4)}
      [] log.kind = "condition" -> {Topic(log, 2)}
      [] log.kind = "redemption" -> {Topic(log, 1), Topic(log, 2)}
      [] OTHER -> {}
Fields(log, words) ==
    [question |-> IF log.kind \in {"redemption", "unknown"} THEN <<>>
                  ELSE Topic(log, IF log.kind = "condition" THEN 3 ELSE 1),
     condition |-> CASE log.kind = "condition" -> Topic(log, 1)
                     [] log.kind = "redemption" -> DataWord(words, 1, 3)
                     [] OTHER -> <<>>,
     price |-> IF log.kind = "resolved" THEN Topic(log, 2) ELSE <<>>,
     amount |-> CASE log.kind = "initialized" -> DataWord(words, 4, 4)
                  [] log.kind = "condition" -> DataWord(words, 1, 1)
                  [] log.kind = "redemption" -> DataWord(words, 3, 3)
                  [] OTHER -> <<>>,
     array |-> <<>>]
DecodeWords(log, words) == Decoded(ArrayOf(log, words), Addresses(log, words), Fields(log, words))
DecodeEvent(log) == DecodeWords(log, DataWords(log.data))

-----------------------------------------------------------------------------
(* RLP *)
MinimalLengthBytes(n) == WithoutZeros(<<n \div 65536, (n \div 256) % 256, n % 256>>)
WithLength(long, length, payload) == <<long + Len(length)>> \o length \o payload
WithHeader(short, long, payload) ==
    IF Len(payload) < 56 THEN <<short + Len(payload)>> \o payload
    ELSE WithLength(long, MinimalLengthBytes(Len(payload)), payload)
RlpEncodeBytes(bytes) ==
    IF Len(bytes) = 1 /\ bytes[1] < 128 THEN bytes ELSE WithHeader(128, 183, bytes)
RlpEncodeUint(bytes) == RlpEncodeBytes(WithoutZeros(bytes))
RlpEncodeList(items) == WithHeader(192, 247, FlattenSeq(items))

(* unsigned_fields *)
UnsignedFields(tx) ==
    IF tx.chain = 0 \/ tx.chain > ((HostMax - 36) \div 2) \/ Len(tx.to) # AddressSize THEN NotOk
    ELSE Ok(<<RlpEncodeUint(tx.nonce), RlpEncodeUint(tx.gas_price), RlpEncodeUint(tx.gas_limit),
              RlpEncodeBytes(tx.to), RlpEncodeUint(tx.value), RlpEncodeBytes(tx.data)>>)

(* What is hashed for the signature, and what is sent. *)
Listed(fields, v, r, s) ==
    IF ~fields.ok THEN NotOk
    ELSE Ok(RlpEncodeList(fields.v \o <<RlpEncodeUint(Uint256Word(v)), RlpEncodeUint(r), RlpEncodeUint(s)>>))
SigningFields(tx) == Listed(UnsignedFields(tx), tx.chain, <<>>, <<>>)
SignedTransaction(tx) == Listed(UnsignedFields(tx), tx.chain * 2 + 35 + tx.recovery, tx.r, tx.s)

-----------------------------------------------------------------------------
Code ==
    CASE coding.kind = "values" -> AppendSequence(coding.values)
      [] coding.kind = "text" -> UnsignedInteger(coding, coding.size)
      [] coding.kind = "word" -> <<PositiveHexToDecimal(Digits(coding.word)), IntWordToDecimal(coding.word),
                                   AbiWordToSize(coding.word), WordToAddress(coding.word)>>
      [] coding.kind = "array" -> DecodeUintArray(FlattenSeq(coding.words), coding.index, coding.heads)
      [] coding.kind = "log" -> DecodeEvent(coding.log)
      [] OTHER -> <<SigningFields(coding), SignedTransaction(coding)>>

InitState == coding \in Codings /\ coded = <<>>
Init == InitState
Next == coded = <<>> /\ coded' = Code /\ UNCHANGED coding
Spec == Init /\ [][Next]_vars

-----------------------------------------------------------------------------
Is(kind) == coded # <<>> /\ coding.kind = kind
Number(bytes) == FoldLeft(LAMBDA n, b : n * 256 + b, 0, bytes)
Decimal(digits) == FoldLeft(LAMBDA n, d : n * 10 + d, 0, digits)
Hex(digits) == FoldLeft(LAMBDA n, d : n * 16 + d, 0, digits)

(* A reader of the ABI: the value of the shape of `like' that starts at byte `at'. *)
RECURSIVE StaticSize(_), ReadValue(_, _, _), ReadSequence(_, _, _)
StaticSize(like) == IF like.kind = "word" THEN WordSize
                    ELSE IF IsDynamic(like) THEN WordSize
                    ELSE Total([i \in DOMAIN like.children |-> StaticSize(like.children[i])])
ReadWord(data, at) == Number(SubSeq(data, at + 1, at + WordSize))
ReadValue(like, data, at) ==
    CASE like.kind = "word" -> [like EXCEPT !.data = SubSeq(data, at + 1, at + WordSize)]
      [] like.kind = "bytes" -> [like EXCEPT !.data = SubSeq(data, at + WordSize + 1, at + WordSize + ReadWord(data, at))]
      [] like.kind = "array" -> IF ReadWord(data, at) # Len(like.children) THEN [like EXCEPT !.kind = "bad"]
                                ELSE [like EXCEPT !.children = ReadSequence(@, data, at + WordSize)]
      [] OTHER -> [like EXCEPT !.children = ReadSequence(@, data, at)]
ReadSequence(likes, data, base) ==
    [i \in DOMAIN likes |->
        LET at == base + Total([j \in 1..(i - 1) |-> StaticSize(likes[j])])
        IN ReadValue(likes[i], data, IF IsDynamic(likes[i]) THEN base + ReadWord(data, at) ELSE at)]

(* A reader of RLP lists of byte strings. *)
ItemAt(data, at) ==
    LET b == data[at] IN
    CASE b < 128 -> [from |-> at, to |-> at]
      [] b < 184 -> [from |-> at + 1, to |-> at + b - 128]
      [] OTHER -> LET n == b - 183 IN [from |-> at + 1 + n, to |-> at + n + Number(SubSeq(data, at + 1, at + n))]
ListPayload(data) ==
    LET b == data[1] IN
    IF b < 248 THEN IF Len(data) = b - 191 THEN SubSeq(data, 2, Len(data)) ELSE <<>>
    ELSE LET n == b - 247 IN
         IF Len(data) = 1 + n + Number(SubSeq(data, 2, 1 + n)) THEN SubSeq(data, 2 + n, Len(data)) ELSE <<>>
RECURSIVE Items(_, _)
Items(data, at) ==
    IF at > Len(data) THEN <<>>
    ELSE LET item == ItemAt(data, at) IN <<SubSeq(data, item.from, item.to)>> \o Items(data, item.to + 1)

(* Calldata reads back as the arguments it was made from, word-aligned; an integer is
   taken if and only if it fits, and formatted as itself; what a log's array is read as
   lies behind the head and inside the data, and an event a contract emits decodes to its
   arguments; a transaction reads back as its fields with a v that names the chain and fits
   64 bits. *)
CodecExact ==
    /\ Is("values") => /\ ReadSequence(coding.values, coded, 0) = coding.values
                       /\ Len(coded) % WordSize = 0
    /\ Is("text") =>
         LET n == IF coding.hex THEN Hex(coding.digits) ELSE Decimal(coding.digits) IN
         /\ coded.ok <=> coding.digits # <<>> /\ n < 256 ^ coding.size
         /\ coded.ok => Number(coded.v) = n /\ Len(coded.v) = WordSize
    /\ Is("word") =>
         LET n == Number(coding.word)
             signed == IF 2 * n < 256 ^ WordSize THEN n ELSE n - (256 ^ WordSize)
         IN /\ Decimal(coded[1]) = n /\ (n = 0 \/ coded[1][1] # 0)
            /\ coded[2].sign * Decimal(coded[2].digits) = signed
            /\ coded[3] = IF n <= HostMax THEN Ok(n) ELSE NotOk
            /\ coded[4].ok <=> n < 256 ^ AddressSize
    /\ Is("array") /\ coded.ok =>
         LET at == Number(coding.words[coding.index + 1]) \div WordSize IN
         /\ at >= coding.heads /\ at + 1 + Len(coded.v) <= Len(coding.words)
         /\ Number(coding.words[at + 1]) = Len(coded.v)
         /\ \A i \in DOMAIN coded.v : coded.v[i] = coding.words[at + 1 + i]
    /\ Is("log") => coded = coding.says
    /\ Is("transaction") =>
         LET valid == coding.chain > 0 /\ coding.chain * 2 + 36 <= HostMax
             common == <<WithoutZeros(coding.nonce), WithoutZeros(coding.gas_price),
                         WithoutZeros(coding.gas_limit), coding.to, WithoutZeros(coding.value), coding.data>>
             v == coding.chain * 2 + 35 + coding.recovery
         IN IF ~valid THEN coded = <<NotOk, NotOk>>
            ELSE /\ Items(ListPayload(coded[1].v), 1) = common \o <<WithoutZeros(Uint256Word(coding.chain)), <<>>, <<>>>>
                 /\ Items(ListPayload(coded[2].v), 1) =
                        common \o <<WithoutZeros(Uint256Word(v)), WithoutZeros(coding.r), WithoutZeros(coding.s)>>
=============================================================================
