---------------------------- MODULE CryptoBlocks -----------------------------
(***************************************************************************)
(* What the cryptography computes of one block: the compression functions  *)
(* of SHA-256 and MD5 (sha256_process of sha256.c, md5_process of md5.c)   *)
(* with their own constants, and the AES block cipher as aes.c computes    *)
(* it, with tables for whole columns, which it makes at the first use: T   *)
(* below.  A byte is a number.  A word of 32 bits is the pair of its       *)
(* halves in a digest, and in AES the sequence of its bytes, the lowest    *)
(* first (GET_UINT32_LE).                                                  *)
(***************************************************************************)
EXTENDS Integers, SequencesExt, Bitwise, Steps

\* The word t of a block, its four bytes.
Word4(bytes, t) == SubSeq(bytes, 4 * t + 1, 4 * t + 4)

-----------------------------------------------------------------------------
(* Digests: words of two halves.                                           *)

Half == 65536

Xor2(x, y) == <<x[1] ^^ y[1], x[2] ^^ y[2]>>
And2(x, y) == <<x[1] & y[1], x[2] & y[2]>>
Or2(x, y) == <<x[1] | y[1], x[2] | y[2]>>
Not2(x) == <<Half - 1 - x[1], Half - 1 - x[2]>>

\* The sum modulo 2^32.
x ++ y ==
    LET low == x[2] + y[2]
    IN  <<(x[1] + y[1] + low \div Half) % Half, low % Half>>

Shr(x, n) ==
    IF n >= 16 THEN <<0, x[1] \div 2^(n - 16)>>
    ELSE <<x[1] \div 2^n, x[2] \div 2^n + (x[1] % 2^n) * 2^(16 - n)>>
Shl(x, n) ==
    IF n >= 16 THEN <<(x[2] % 2^(32 - n)) * 2^(n - 16), 0>>
    ELSE <<(x[1] % 2^(16 - n)) * 2^n + x[2] \div 2^(16 - n), (x[2] % 2^(16 - n)) * 2^n>>
\* (What is shifted out and what stays have no bit in common: "or" is the sum.)
Rotr(x, n) == Shr(x, n) ++ Shl(x, 32 - n)
Rotl(x, n) == Shl(x, n) ++ Shr(x, 32 - n)

\* GET_UINT32 and PUT_UINT32, big and little endian.
BigEndian(bytes) == <<bytes[1] * 256 + bytes[2], bytes[3] * 256 + bytes[4]>>
LittleEndian(bytes) == BigEndian(Reverse(bytes))
BigBytes(x) == <<x[1] \div 256, x[1] % 256, x[2] \div 256, x[2] % 256>>
LittleBytes(x) == Reverse(BigBytes(x))

\* Bytes of the words, one after the other.
Written(Bytes4(_), words) == FoldLeft(LAMBDA s, x : s \o Bytes4(x), <<>>, words)

\* (A sequence, which TLC computes once.)
Sums(x, y) == <<>> \o [i \in DOMAIN x |-> x[i] ++ y[i]]

-----------------------------------------------------------------------------
(* sha256.c                                                                *)

Sha256Start ==
  <<
    <<\h6A09, \hE667>>, <<\hBB67, \hAE85>>, <<\h3C6E, \hF372>>, <<\hA54F, \hF53A>>,
    <<\h510E, \h527F>>, <<\h9B05, \h688C>>, <<\h1F83, \hD9AB>>, <<\h5BE0, \hCD19>>
  >>
Sha224Start ==
  <<
    <<\hC105, \h9ED8>>, <<\h367C, \hD507>>, <<\h3070, \hDD17>>, <<\hF70E, \h5939>>,
    <<\hFFC0, \h0B31>>, <<\h6858, \h1511>>, <<\h64F9, \h8FA7>>, <<\hBEFA, \h4FA4>>
  >>

\* The constants of the 64 rounds.
ShaK ==
  <<
    <<\h428A, \h2F98>>, <<\h7137, \h4491>>, <<\hB5C0, \hFBCF>>, <<\hE9B5, \hDBA5>>,
    <<\h3956, \hC25B>>, <<\h59F1, \h11F1>>, <<\h923F, \h82A4>>, <<\hAB1C, \h5ED5>>,
    <<\hD807, \hAA98>>, <<\h1283, \h5B01>>, <<\h2431, \h85BE>>, <<\h550C, \h7DC3>>,
    <<\h72BE, \h5D74>>, <<\h80DE, \hB1FE>>, <<\h9BDC, \h06A7>>, <<\hC19B, \hF174>>,
    <<\hE49B, \h69C1>>, <<\hEFBE, \h4786>>, <<\h0FC1, \h9DC6>>, <<\h240C, \hA1CC>>,
    <<\h2DE9, \h2C6F>>, <<\h4A74, \h84AA>>, <<\h5CB0, \hA9DC>>, <<\h76F9, \h88DA>>,
    <<\h983E, \h5152>>, <<\hA831, \hC66D>>, <<\hB003, \h27C8>>, <<\hBF59, \h7FC7>>,
    <<\hC6E0, \h0BF3>>, <<\hD5A7, \h9147>>, <<\h06CA, \h6351>>, <<\h1429, \h2967>>,
    <<\h27B7, \h0A85>>, <<\h2E1B, \h2138>>, <<\h4D2C, \h6DFC>>, <<\h5338, \h0D13>>,
    <<\h650A, \h7354>>, <<\h766A, \h0ABB>>, <<\h81C2, \hC92E>>, <<\h9272, \h2C85>>,
    <<\hA2BF, \hE8A1>>, <<\hA81A, \h664B>>, <<\hC24B, \h8B70>>, <<\hC76C, \h51A3>>,
    <<\hD192, \hE819>>, <<\hD699, \h0624>>, <<\hF40E, \h3585>>, <<\h106A, \hA070>>,
    <<\h19A4, \hC116>>, <<\h1E37, \h6C08>>, <<\h2748, \h774C>>, <<\h34B0, \hBCB5>>,
    <<\h391C, \h0CB3>>, <<\h4ED8, \hAA4A>>, <<\h5B9C, \hCA4F>>, <<\h682E, \h6FF3>>,
    <<\h748F, \h82EE>>, <<\h78A5, \h636F>>, <<\h84C8, \h7814>>, <<\h8CC7, \h0208>>,
    <<\h90BE, \hFFFA>>, <<\hA450, \h6CEB>>, <<\hBEF9, \hA3F7>>, <<\hC671, \h78F2>>
  >>

Ch(x, y, z) == Xor2(z, And2(x, Xor2(y, z)))
Maj(x, y, z) == Or2(And2(x, y), And2(z, Or2(x, y)))
S0(x) == Xor2(Rotr(x, 7), Xor2(Rotr(x, 18), Shr(x, 3)))
S1(x) == Xor2(Rotr(x, 17), Xor2(Rotr(x, 19), Shr(x, 10)))
S2(x) == Xor2(Rotr(x, 2), Xor2(Rotr(x, 13), Rotr(x, 22)))
S3(x) == Xor2(Rotr(x, 6), Xor2(Rotr(x, 11), Rotr(x, 25)))

\* W: the block's words, and those made of the words before.
ShaSchedule(data) ==
    LET Next(W, t) ==
            IF t <= 16 THEN Append(W, BigEndian(Word4(data, t - 1)))
            ELSE Append(W, S1(W[t - 2]) ++ W[t - 7] ++ S0(W[t - 15]) ++ W[t - 16])
    IN  Repeat(64, Next, <<>>)

\* P: a round, of A..H; the names move on by one.
ShaRound(s, x, k) ==
    LET temp1 == s[8] ++ S3(s[5]) ++ Ch(s[5], s[6], s[7]) ++ k ++ x
        temp2 == S2(s[1]) ++ Maj(s[1], s[2], s[3])
    IN  <<temp1 ++ temp2, s[1], s[2], s[3], s[4] ++ temp1, s[5], s[6], s[7]>>

ShaProcess(state, data) ==
    LET W == ShaSchedule(data)
        Turn(s, t) == ShaRound(s, W[t], ShaK[t])
        rounds == Repeat(64, Turn, state)
    IN  Sums(state, rounds)

-----------------------------------------------------------------------------
(* md5.c                                                                   *)

Md5Start == <<<<\h6745, \h2301>>, <<\hEFCD, \hAB89>>, <<\h98BA, \hDCFE>>, <<\h1032, \h5476>>>>

\* The constants of the 64 steps.
Md5T ==
  <<
    <<\hD76A, \hA478>>, <<\hE8C7, \hB756>>, <<\h2420, \h70DB>>, <<\hC1BD, \hCEEE>>,
    <<\hF57C, \h0FAF>>, <<\h4787, \hC62A>>, <<\hA830, \h4613>>, <<\hFD46, \h9501>>,
    <<\h6980, \h98D8>>, <<\h8B44, \hF7AF>>, <<\hFFFF, \h5BB1>>, <<\h895C, \hD7BE>>,
    <<\h6B90, \h1122>>, <<\hFD98, \h7193>>, <<\hA679, \h438E>>, <<\h49B4, \h0821>>,
    <<\hF61E, \h2562>>, <<\hC040, \hB340>>, <<\h265E, \h5A51>>, <<\hE9B6, \hC7AA>>,
    <<\hD62F, \h105D>>, <<\h0244, \h1453>>, <<\hD8A1, \hE681>>, <<\hE7D3, \hFBC8>>,
    <<\h21E1, \hCDE6>>, <<\hC337, \h07D6>>, <<\hF4D5, \h0D87>>, <<\h455A, \h14ED>>,
    <<\hA9E3, \hE905>>, <<\hFCEF, \hA3F8>>, <<\h676F, \h02D9>>, <<\h8D2A, \h4C8A>>,
    <<\hFFFA, \h3942>>, <<\h8771, \hF681>>, <<\h6D9D, \h6122>>, <<\hFDE5, \h380C>>,
    <<\hA4BE, \hEA44>>, <<\h4BDE, \hCFA9>>, <<\hF6BB, \h4B60>>, <<\hBEBF, \hBC70>>,
    <<\h289B, \h7EC6>>, <<\hEAA1, \h27FA>>, <<\hD4EF, \h3085>>, <<\h0488, \h1D05>>,
    <<\hD9D4, \hD039>>, <<\hE6DB, \h99E5>>, <<\h1FA2, \h7CF8>>, <<\hC4AC, \h5665>>,
    <<\hF429, \h2244>>, <<\h432A, \hFF97>>, <<\hAB94, \h23A7>>, <<\hFC93, \hA039>>,
    <<\h655B, \h59C3>>, <<\h8F0C, \hCC92>>, <<\hFFEF, \hF47D>>, <<\h8584, \h5DD1>>,
    <<\h6FA8, \h7E4F>>, <<\hFE2C, \hE6E0>>, <<\hA301, \h4314>>, <<\h4E08, \h11A1>>,
    <<\hF753, \h7E82>>, <<\hBD3A, \hF235>>, <<\h2AD7, \hD2BB>>, <<\hEB86, \hD391>>
  >>

\* The word and the rotation of step t, in round r.
Md5X(r, t) == (<<t, 5 * t + 1, 3 * t + 5, 7 * t>>[r]) % 16
Md5S == <<<<7, 12, 17, 22>>, <<5, 9, 14, 20>>, <<4, 11, 16, 23>>, <<6, 10, 15, 21>>>>
Md5F(r, x, y, z) ==
    CASE r = 1 -> Xor2(z, And2(x, Xor2(y, z)))
      [] r = 2 -> Xor2(y, And2(z, Xor2(x, y)))
      [] r = 3 -> Xor2(x, Xor2(y, z))
      [] r = 4 -> Xor2(y, Or2(x, Not2(z)))

\* P: a step, of A..D; the names move on by one.
Md5Step(s, data, t) ==
    LET r == (t - 1) \div 16 + 1
        x == LittleEndian(Word4(data, Md5X(r, t - 1)))
        sum == s[1] ++ Md5F(r, s[2], s[3], s[4]) ++ x ++ Md5T[t]
    IN  <<s[4], Rotl(sum, Md5S[r][((t - 1) % 4) + 1]) ++ s[2], s[2], s[3]>>

Md5Process(state, data) ==
    LET Step(s, t) == Md5Step(s, data, t)
        steps == Repeat(64, Step, state)
    IN  Sums(state, steps)

-----------------------------------------------------------------------------
(* What a digest is, in each of the variants.                              *)

HashStart(variant) ==
    CASE variant = "SHA-256" -> Sha256Start
      [] variant = "SHA-224" -> Sha224Start
      [] variant = "MD5" -> Md5Start

HashCompress(state, data) ==
    IF Len(state) = 4 THEN Md5Process(state, data) ELSE ShaProcess(state, data)

\* msglen
HashLength(variant, high, low) ==
    LET H == <<high \div Half, high % Half>>
        L == <<low \div Half, low % Half>>
    IN  IF variant = "MD5" THEN Written(LittleBytes, <<L, H>>) ELSE Written(BigBytes, <<H, L>>)

HashOutput(state, variant) ==
    CASE variant = "SHA-256" -> Written(BigBytes, state)
      [] variant = "SHA-224" -> Written(BigBytes, SubSeq(state, 1, 7))
      [] variant = "MD5" -> Written(LittleBytes, state)

-----------------------------------------------------------------------------
(* The test vectors of sha256_self_test and md5_self_test: FIPS 180-2, RFC *)
(* 1321, 2202 and 4231 (without the message of a million bytes).  Digests  *)
(* are written in pairs of bytes.                                          *)

Bytes2(words) ==
    [i \in 1..(2 * Len(words)) |->
        IF i % 2 = 1 THEN words[(i + 1) \div 2] \div 256 ELSE words[i \div 2] % 256]
Same(n, byte) == [i \in 1..n |-> byte]
Run(from, to) == [i \in 1..(to - from + 1) |-> from + i - 1]

\* "abc", the letters of FIPS 180-2, and what md5.c hashes.
ShaMessages == << <<97, 98, 99>>, [i \in 1..56 |-> 97 + (i - 1) \div 4 + ((i - 1) % 4)] >>
Digits == Run(48, 57)
Md5Messages ==
  << <<>>, <<97>>, <<97, 98, 99>>,
     <<109, 101, 115, 115, 97, 103, 101, 32, 100, 105, 103, 101, 115, 116>>,
     Run(97, 122), Run(65, 90) \o Run(97, 122) \o Digits,
     [i \in 1..80 |-> 48 + (i % 10)] >>

\* Of HMAC: the keys, and the messages: "Hi There", "what do ya want for nothing?", bytes that
\* repeat, "Test With Truncation", and sentences about a larger key and larger data.
HmacKeys(long) ==
  << Same(20, 11), <<74, 101, 102, 101>>, Same(20, 170), Run(1, 25), Same(20, 12),
     Same(long, 170), Same(long, 170) >>
HmacMessages ==
  << <<72, 105, 32, 84, 104, 101, 114, 101>>,
     <<119, 104, 97, 116, 32, 100, 111, 32, 121, 97, 32, 119, 97, 110, 116, 32, 102, 111,
       114, 32, 110, 111, 116, 104, 105, 110, 103, 63>>,
     Same(50, 221), Same(50, 205),
     <<84, 101, 115, 116, 32, 87, 105, 116, 104, 32, 84, 114, 117, 110, 99, 97, 116, 105,
       111, 110>>,
     <<84, 101, 115, 116, 32, 85, 115, 105, 110, 103, 32, 76, 97, 114, 103, 101, 114, 32,
       84, 104, 97, 110, 32, 66, 108, 111, 99, 107, 45, 83, 105, 122, 101, 32, 75, 101,
       121, 32, 45, 32, 72, 97, 115, 104, 32, 75, 101, 121, 32, 70, 105, 114, 115, 116>> >>
Sha256Sentence ==
  <<84, 104, 105, 115, 32, 105, 115, 32, 97, 32, 116, 101, 115, 116, 32, 117, 115, 105,
    110, 103, 32, 97, 32, 108, 97, 114, 103, 101, 114, 32, 116, 104, 97, 110, 32, 98,
    108, 111, 99, 107, 45, 115, 105, 122, 101, 32, 107, 101, 121, 32, 97, 110, 100, 32,
    97, 32, 108, 97, 114, 103, 101, 114, 32, 116, 104, 97, 110, 32, 98, 108, 111, 99,
    107, 45, 115, 105, 122, 101, 32, 100, 97, 116, 97, 46, 32, 84, 104, 101, 32, 107,
    101, 121, 32, 110, 101, 101, 100, 115, 32, 116, 111, 32, 98, 101, 32, 104, 97, 115,
    104, 101, 100, 32, 98, 101, 102, 111, 114, 101, 32, 98, 101, 105, 110, 103, 32, 117,
    115, 101, 100, 32, 98, 121, 32, 116, 104, 101, 32, 72, 77, 65, 67, 32, 97, 108,
    103, 111, 114, 105, 116, 104, 109, 46>>
Md5Sentence ==
  <<84, 101, 115, 116, 32, 85, 115, 105, 110, 103, 32, 76, 97, 114, 103, 101, 114, 32,
    84, 104, 97, 110, 32, 66, 108, 111, 99, 107, 45, 83, 105, 122, 101, 32, 75, 101,
    121, 32, 97, 110, 100, 32, 76, 97, 114, 103, 101, 114, 32, 84, 104, 97, 110, 32,
    79, 110, 101, 32, 66, 108, 111, 99, 107, 45, 83, 105, 122, 101, 32, 68, 97, 116,
    97>>

\* sha256_test_sum: of SHA-224, then of SHA-256.
ShaSums ==
  <<<<\h2309, \h7D22, \h3405, \hD822, \h8642, \hA477, \hBDA2, \h55B3,
      \h2AAD, \hBCE4, \hBDA0, \hB3F7, \hE36C, \h9DA7>>,
    <<\h7538, \h8B16, \h5127, \h76CC, \h5DBA, \h5DA1, \hFD89, \h0150,
      \hB0C6, \h455C, \hB4F5, \h8B19, \h5252, \h2525>>,
    <<\hBA78, \h16BF, \h8F01, \hCFEA, \h4141, \h40DE, \h5DAE, \h2223,
      \hB003, \h61A3, \h9617, \h7A9C, \hB410, \hFF61, \hF200, \h15AD>>,
    <<\h248D, \h6A61, \hD206, \h38B8, \hE5C0, \h2693, \h0C3E, \h6039,
      \hA33C, \hE459, \h64FF, \h2167, \hF6EC, \hEDD4, \h19DB, \h06C1>>>>

\* sha256_hmac_test_sum: of SHA-224, then of SHA-256.
HmacShaSums ==
  <<<<\h896F, \hB112, \h8ABB, \hDF19, \h6832, \h107C, \hD49D, \hF33F,
      \h47B4, \hB116, \h9912, \hBA4F, \h5368, \h4B22>>,
    <<\hA30E, \h0109, \h8BC6, \hDBBF, \h4569, \h0F3A, \h7E9E, \h6D0F,
      \h8BBE, \hA2A3, \h9E61, \h4800, \h8FD0, \h5E44>>,
    <<\h7FB3, \hCB35, \h88C6, \hC1F6, \hFFA9, \h694D, \h7D6A, \hD264,
      \h9365, \hB0C1, \hF65D, \h69D1, \hEC83, \h33EA>>,
    <<\h6C11, \h5068, \h7401, \h3CAC, \h6A2A, \hBC1B, \hB382, \h627C,
      \hEC6A, \h90D8, \h6EFC, \h012D, \hE7AF, \hEC5A>>,
    <<\h0E2A, \hEA68, \hA90C, \h8D37, \hC988, \hBCDB, \h9FCA, \h6FA8>>,
    <<\h95E9, \hA0DB, \h9620, \h95AD, \hAEBE, \h9B2D, \h6F0D, \hBCE2,
      \hD499, \hF112, \hF2D2, \hB727, \h3FA6, \h870E>>,
    <<\h3A85, \h4166, \hAC5D, \h9F02, \h3F54, \hD517, \hD0B3, \h9DBD,
      \h9467, \h70DB, \h9C2B, \h95C9, \hF6F5, \h65D1>>,
    <<\hB034, \h4C61, \hD8DB, \h3853, \h5CA8, \hAFCE, \hAF0B, \hF12B,
      \h881D, \hC200, \hC983, \h3DA7, \h26E9, \h376C, \h2E32, \hCFF7>>,
    <<\h5BDC, \hC146, \hBF60, \h754E, \h6A04, \h2426, \h0895, \h75C7,
      \h5A00, \h3F08, \h9D27, \h3983, \h9DEC, \h58B9, \h64EC, \h3843>>,
    <<\h773E, \hA91E, \h3680, \h0E46, \h854D, \hB8EB, \hD091, \h81A7,
      \h2959, \h098B, \h3EF8, \hC122, \hD963, \h5514, \hCED5, \h65FE>>,
    <<\h8255, \h8A38, \h9A44, \h3C0E, \hA4CC, \h8198, \h99F2, \h083A,
      \h85F0, \hFAA3, \hE578, \hF807, \h7A2E, \h3FF4, \h6729, \h665B>>,
    <<\hA3B6, \h1674, \h7310, \h0EE0, \h6E0C, \h796C, \h2955, \h552B>>,
    <<\h60E4, \h3159, \h1EE0, \hB67F, \h0D8A, \h26AA, \hCBF5, \hB77F,
      \h8E0B, \hC621, \h3728, \hC514, \h0546, \h040F, \h0EE3, \h7F54>>,
    <<\h9B09, \hFFA7, \h1B94, \h2FCB, \h2763, \h5FBC, \hD5B0, \hE944,
      \hBFDC, \h6364, \h4F07, \h1393, \h8A7F, \h5153, \h5C3A, \h35E2>>>>

\* md5_test_sum
Md5Sums ==
  <<<<\hD41D, \h8CD9, \h8F00, \hB204, \hE980, \h0998, \hECF8, \h427E>>,
    <<\h0CC1, \h75B9, \hC0F1, \hB6A8, \h31C3, \h99E2, \h6977, \h2661>>,
    <<\h9001, \h5098, \h3CD2, \h4FB0, \hD696, \h3F7D, \h28E1, \h7F72>>,
    <<\hF96B, \h697D, \h7CB7, \h938D, \h525A, \h2F31, \hAAF1, \h61D0>>,
    <<\hC3FC, \hD3D7, \h6192, \hE400, \h7DFB, \h496C, \hCA67, \hE13B>>,
    <<\hD174, \hAB98, \hD277, \hD9F5, \hA561, \h1C2C, \h9F41, \h9D9F>>,
    <<\h57ED, \hF4A2, \h2BE3, \hC955, \hAC49, \hDA2E, \h2107, \hB67A>>>>

\* md5_hmac_test_sum
HmacMd5Sums ==
  <<<<\h9294, \h727A, \h3638, \hBB1C, \h13F4, \h8EF8, \h158B, \hFC9D>>,
    <<\h750C, \h783E, \h6AB0, \hB503, \hEAA8, \h6E31, \h0A5D, \hB738>>,
    <<\h56BE, \h3452, \h1D14, \h4C88, \hDBB8, \hC733, \hF0E8, \hB3F6>>,
    <<\h697E, \hAF0A, \hCA3A, \h3AEA, \h3A75, \h1647, \h46FF, \hAA79>>,
    <<\h5646, \h1EF2, \h342E, \hDC00, \hF9BA, \hB995>>,
    <<\h6B1A, \hB7FE, \h4BD7, \hBF8F, \h0B62, \hE6CE, \h61B9, \hD0CD>>,
    <<\h6F63, \h0FAD, \h67CD, \hA0EE, \h1FB1, \hF562, \hDB3A, \hA53E>>>>

Vector(variant, keys, message, words) ==
    [variant |-> variant, keys |-> keys, message |-> message, pieces |-> {Len(message)},
     calls |-> 1, expect |-> Bytes2(words)]

ShaVariant(first) == IF first THEN "SHA-224" ELSE "SHA-256"

\* sha256_self_test
ShaVectors ==
    {Vector(ShaVariant(i <= 2), {<<-1>>}, ShaMessages[((i - 1) % 2) + 1], ShaSums[i]) : i \in 1..4} \cup
    {LET n == IF i <= 7 THEN i ELSE i - 7
     IN  Vector(ShaVariant(i <= 7), {HmacKeys(131)[n]},
                Append(HmacMessages, Sha256Sentence)[n], HmacShaSums[i]) : i \in 1..14}

\* md5_self_test; its first, third and fifth key are 16 bytes.
Md5Keys ==
    LET keys == HmacKeys(80)
    IN  [i \in 1..7 |-> IF i \in {1, 3, 5} THEN SubSeq(keys[i], 1, 16) ELSE keys[i]]
Md5Vectors ==
    {Vector("MD5", {<<-1>>}, Md5Messages[i], Md5Sums[i]) : i \in 1..7} \cup
    {Vector("MD5", {Md5Keys[i]}, Append(HmacMessages, Md5Sentence)[i], HmacMd5Sums[i]) :
        i \in 1..7}

-----------------------------------------------------------------------------
(* AES: words of four bytes.                                               *)

ByteXor(x, y) == x ^^ y
Xor4(x, y) == <<x[1] ^^ y[1], x[2] ^^ y[2], x[3] ^^ y[3], x[4] ^^ y[4]>>
XorAll(w) == Xor4(Xor4(w[1], w[2]), Xor4(w[3], w[4]))

-----------------------------------------------------------------------------
(* aes_gen_tables                                                          *)

XTime(x) == ((2 * x) % 256) ^^ (IF x >= 128 THEN \h1B ELSE 0)

Times3(s, i) == Append(s, s[Len(s)] ^^ XTime(s[Len(s)]))
Times3To17(s, i) == Repeat(17, Times3, s)

Rcon ==
    LET Double(s, i) == Append(s, XTime(s[i]))
    IN  Repeat(9, Double, <<1>>)

\* The inverse of the byte, and it rotated by 1, 2, 3 and 4.
SBoxOf(x) ==
    LET Rot(n) == ((x * 2^n) % 256) + x \div 2^(8 - n)
    IN  ((x ^^ Rot(1)) ^^ (Rot(2) ^^ Rot(3))) ^^ (Rot(4) ^^ \h63)

\* ROTL8, k times.
Rotl8(k, w) == <<>> \o [i \in 1..4 |-> w[((i - 1 + 4 - k) % 4) + 1]]

\* pow: the powers of 3, from the 0th to the 255th; log: which power a byte is.  F and R are
\* FT0 to FT3 and RT0 to RT3: SubBytes and MixColumns of one byte of a column, and back.
GenTables ==
    LET pow == Repeat(15, Times3To17, <<1>>)
        log == <<>> \o [x \in 1..255 |-> CHOOSE i \in 1..255 : pow[i + 1] = x]
        Mul(x, y) == IF x = 0 \/ y = 0 THEN 0 ELSE pow[((log[x] + log[y]) % 255) + 1]
        fsb == <<>> \o [i \in 1..256 |-> SBoxOf(IF i = 1 THEN 0 ELSE pow[256 - log[i - 1]])]
        rsb == <<>> \o [x \in 1..256 |-> CHOOSE i \in 0..255 : fsb[i + 1] = x - 1]
        ColumnF(x) == <<XTime(x), x, x, XTime(x) ^^ x>>
        ColumnR(x) == <<Mul(14, x), Mul(9, x), Mul(13, x), Mul(11, x)>>
    IN  [fsb |-> fsb, rsb |-> rsb,
         F |-> <<>> \o [k \in 1..4 |->
                    <<>> \o [i \in 1..256 |-> Rotl8(k - 1, ColumnF(fsb[i]))]],
         R |-> <<>> \o [k \in 1..4 |->
                    <<>> \o [i \in 1..256 |-> Rotl8(k - 1, ColumnR(rsb[i]))]]]

-----------------------------------------------------------------------------
(* The tables of a build with POLARSSL_AES_ROM_TABLES.                     *)

FSbRom ==
  <<
    99, 124, 119, 123, 242, 107, 111, 197, 48, 1, 103, 43, 254, 215, 171, 118, 202, 130, 201, 125,
    250, 89, 71, 240, 173, 212, 162, 175, 156, 164, 114, 192, 183, 253, 147, 38, 54, 63, 247, 204,
    52, 165, 229, 241, 113, 216, 49, 21, 4, 199, 35, 195, 24, 150, 5, 154, 7, 18, 128, 226,
    235, 39, 178, 117, 9, 131, 44, 26, 27, 110, 90, 160, 82, 59, 214, 179, 41, 227, 47, 132,
    83, 209, 0, 237, 32, 252, 177, 91, 106, 203, 190, 57, 74, 76, 88, 207, 208, 239, 170, 251,
    67, 77, 51, 133, 69, 249, 2, 127, 80, 60, 159, 168, 81, 163, 64, 143, 146, 157, 56, 245,
    188, 182, 218, 33, 16, 255, 243, 210, 205, 12, 19, 236, 95, 151, 68, 23, 196, 167, 126, 61,
    100, 93, 25, 115, 96, 129, 79, 220, 34, 42, 144, 136, 70, 238, 184, 20, 222, 94, 11, 219,
    224, 50, 58, 10, 73, 6, 36, 92, 194, 211, 172, 98, 145, 149, 228, 121, 231, 200, 55, 109,
    141, 213, 78, 169, 108, 86, 244, 234, 101, 122, 174, 8, 186, 120, 37, 46, 28, 166, 180, 198,
    232, 221, 116, 31, 75, 189, 139, 138, 112, 62, 181, 102, 72, 3, 246, 14, 97, 53, 87, 185,
    134, 193, 29, 158, 225, 248, 152, 17, 105, 217, 142, 148, 155, 30, 135, 233, 206, 85, 40, 223,
    140, 161, 137, 13, 191, 230, 66, 104, 65, 153, 45, 15, 176, 84, 187, 22
  >>
RSbRom ==
  <<
    82, 9, 106, 213, 48, 54, 165, 56, 191, 64, 163, 158, 129, 243, 215, 251, 124, 227, 57, 130,
    155, 47, 255, 135, 52, 142, 67, 68, 196, 222, 233, 203, 84, 123, 148, 50, 166, 194, 35, 61,
    238, 76, 149, 11, 66, 250, 195, 78, 8, 46, 161, 102, 40, 217, 36, 178, 118, 91, 162, 73,
    109, 139, 209, 37, 114, 248, 246, 100, 134, 104, 152, 22, 212, 164, 92, 204, 93, 101, 182, 146,
    108, 112, 72, 80, 253, 237, 185, 218, 94, 21, 70, 87, 167, 141, 157, 132, 144, 216, 171, 0,
    140, 188, 211, 10, 247, 228, 88, 5, 184, 179, 69, 6, 208, 44, 30, 143, 202, 63, 15, 2,
    193, 175, 189, 3, 1, 19, 138, 107, 58, 145, 17, 65, 79, 103, 220, 234, 151, 242, 207, 206,
    240, 180, 230, 115, 150, 172, 116, 34, 231, 173, 53, 133, 226, 249, 55, 232, 28, 117, 223, 110,
    71, 241, 26, 113, 29, 41, 197, 137, 111, 183, 98, 14, 170, 24, 190, 27, 252, 86, 62, 75,
    198, 210, 121, 32, 154, 219, 192, 254, 120, 205, 90, 244, 31, 221, 168, 51, 136, 7, 199, 49,
    177, 18, 16, 89, 39, 128, 236, 95, 96, 81, 127, 169, 25, 181, 74, 13, 45, 229, 122, 159,
    147, 201, 156, 239, 160, 224, 59, 77, 174, 42, 245, 176, 200, 235, 187, 60, 131, 83, 153, 97,
    23, 43, 4, 126, 186, 119, 214, 38, 225, 105, 20, 99, 85, 33, 12, 125
  >>

AsInRom(T) == T.fsb = FSbRom /\ T.rsb = RSbRom

-----------------------------------------------------------------------------
(* A key's schedule: nr and the words of the round keys.                   *)

Refused == [nr |-> 0, rk |-> <<>>]

\* aes_setkey_enc; n is the number of words in the key.
SetKeyEnc(T, key) ==
    LET n == Len(key) \div 4
        nr == n + 6
        Sub(w) == [k \in 1..4 |-> T.fsb[w[k] + 1]]
        Next(rk, t) ==
            LET i == Len(rk)
                last == rk[i]
                mixed == IF i % n = 0
                           THEN Xor4(Sub(Rotl8(3, last)), <<Rcon[i \div n], 0, 0, 0>>)
                         ELSE IF n = 8 /\ i % n = 4 THEN Sub(last)
                         ELSE last
            IN  Append(rk, Xor4(rk[i - n + 1], mixed))
    IN  IF Len(key) \notin {16, 24, 32} THEN Refused
        ELSE [nr |-> nr,
              rk |-> Repeat(4 * (nr + 1) - n, Next, <<>> \o [t \in 1..n |-> Word4(key, t - 1)])]

\* aes_setkey_dec: the schedule backwards, its inner keys through the reverse tables.
SetKeyDec(T, key) ==
    LET enc == SetKeyEnc(T, key)
        Back(t) == enc.rk[4 * (enc.nr - (t - 1) \div 4) + ((t - 1) % 4) + 1]
        Unmixed(w) == XorAll([k \in 1..4 |-> T.R[k][T.fsb[w[k] + 1] + 1]])
    IN  [enc EXCEPT !.rk = <<>> \o [t \in 1..Len(enc.rk) |->
            IF t <= 4 \/ t > 4 * enc.nr THEN Back(t) ELSE Unmixed(Back(t))]]

-----------------------------------------------------------------------------
(* aes_crypt_ecb                                                           *)

\* The byte k of the column that row k of column j comes from: ShiftRows, and back.
From(direction, Y, j, k) ==
    Y[((j + (IF direction = "encrypt" THEN k ELSE 4 - k)) % 4) + 1][k + 1]

\* AES_FROUND, AES_RROUND
Round(T, direction, rk, Y, r) ==
    LET tables == IF direction = "encrypt" THEN T.F ELSE T.R
        Of(j, k) == tables[k][From(direction, Y, j, k - 1) + 1]
    IN  <<>> \o [c \in 1..4 |->
            Xor4(rk[4 * r + c], XorAll([k \in 1..4 |-> Of(c - 1, k)]))]

LastRound(T, direction, rk, Y, r) ==
    LET table == IF direction = "encrypt" THEN T.fsb ELSE T.rsb
    IN  <<>> \o [c \in 1..4 |->
            Xor4(rk[4 * r + c], [k \in 1..4 |-> table[From(direction, Y, c - 1, k - 1) + 1]])]

CryptEcb(T, ctx, direction, input) ==
    LET X == <<>> \o [c \in 1..4 |-> Xor4(ctx.rk[c], Word4(input, c - 1))]
        Next(Y, r) == IF r < ctx.nr THEN Round(T, direction, ctx.rk, Y, r)
                      ELSE LastRound(T, direction, ctx.rk, Y, r)
        out == Repeat(ctx.nr, Next, X)
    IN  out[1] \o out[2] \o out[3] \o out[4]

-----------------------------------------------------------------------------
(* The test vectors of aes_self_test (aes.c) for the modes that use the    *)
(* block cipher as it is, as uses of AesModes.  (Those for ECB and CBC are *)
(* of 10,000 calls; the cipher and its inverse are used on each other      *)
(* instead, with the same keys of zeros.)                                  *)

Use(mode, key, iv, message, expect, pieces) ==
    [mode |-> mode, key |-> key, iv |-> iv, message |-> message,
     expect |-> expect, pieces |-> pieces]

Cfb128Iv == <<
    0, 1, 2, 3, 4, 5, 6, 7, 8, 9, 10, 11, 12, 13, 14, 15 >>
Cfb128Text == <<
    107, 193, 190, 226, 46, 64, 159, 150, 233, 61, 126, 17, 115, 147, 23, 42, 174, 45, 138,
    87, 30, 3, 172, 156, 158, 183, 111, 172, 69, 175, 142, 81, 48, 200, 28, 70, 163, 92, 228,
    17, 229, 251, 193, 25, 26, 10, 82, 239, 246, 159, 36, 69, 223, 79, 155, 23, 173, 43, 65,
    123, 230, 108, 55, 16 >>
Cfb128With128 ==
  Use("cfb128", <<
    43, 126, 21, 22, 40, 174, 210, 166, 171, 247, 21, 136, 9, 207, 79, 60 >>,
    Cfb128Iv, Cfb128Text,
    <<
    59, 63, 217, 46, 183, 45, 173, 32, 51, 52, 73, 248, 232, 60, 251, 74, 200, 166, 69, 55,
    160, 179, 169, 63, 205, 227, 205, 173, 159, 28, 229, 139, 38, 117, 31, 103, 163, 203, 177,
    64, 177, 128, 140, 241, 135, 164, 244, 223, 192, 75, 5, 53, 124, 93, 28, 14, 234, 196,
    198, 111, 159, 247, 242, 230 >>, {64, 27})
Cfb128With192 ==
  Use("cfb128", <<
    142, 115, 176, 247, 218, 14, 100, 82, 200, 16, 243, 43, 128, 144, 121, 229, 98, 248, 234,
    210, 82, 44, 107, 123 >>,
    Cfb128Iv, Cfb128Text,
    <<
    205, 200, 13, 111, 221, 241, 140, 171, 52, 194, 89, 9, 201, 154, 65, 116, 103, 206, 127,
    127, 129, 23, 54, 33, 150, 26, 43, 112, 23, 29, 61, 122, 46, 30, 138, 29, 213, 155, 136,
    177, 200, 230, 15, 237, 30, 250, 196, 201, 192, 95, 159, 156, 169, 131, 79, 160, 66, 174,
    143, 186, 88, 75, 9, 255 >>, {64})
Cfb128With256 ==
  Use("cfb128", <<
    96, 61, 235, 16, 21, 202, 113, 190, 43, 115, 174, 240, 133, 125, 119, 129, 31, 53, 44, 7,
    59, 97, 8, 215, 45, 152, 16, 163, 9, 20, 223, 244 >>,
    Cfb128Iv, Cfb128Text,
    <<
    220, 126, 132, 191, 218, 121, 22, 75, 126, 205, 132, 134, 152, 93, 56, 96, 57, 255, 237,
    20, 59, 40, 177, 200, 50, 17, 60, 99, 49, 229, 64, 123, 223, 16, 19, 36, 21, 229, 75, 146,
    161, 62, 208, 168, 38, 122, 226, 249, 117, 163, 133, 116, 26, 185, 206, 248, 32, 49, 98,
    61, 85, 177, 228, 113 >>, {64})
Ctr1 ==
  Use("ctr", <<
    174, 104, 82, 248, 18, 16, 103, 204, 75, 247, 165, 118, 85, 119, 243, 158 >>,
    <<
    0, 0, 0, 48, 0, 0, 0, 0, 0, 0, 0, 0, 0, 0, 0, 1 >>,
    <<
    83, 105, 110, 103, 108, 101, 32, 98, 108, 111, 99, 107, 32, 109, 115, 103 >>,
    <<
    228, 9, 93, 79, 183, 167, 179, 121, 45, 97, 117, 163, 38, 19, 17, 184 >>, {16})
Ctr2 ==
  Use("ctr", <<
    126, 36, 6, 120, 23, 250, 224, 215, 67, 214, 206, 31, 50, 83, 145, 99 >>,
    <<
    0, 108, 182, 219, 192, 84, 59, 89, 218, 72, 217, 11, 0, 0, 0, 1 >>,
    <<
    0, 1, 2, 3, 4, 5, 6, 7, 8, 9, 10, 11, 12, 13, 14, 15, 16, 17, 18, 19, 20, 21, 22, 23, 24,
    25, 26, 27, 28, 29, 30, 31 >>,
    <<
    81, 4, 161, 6, 22, 138, 114, 217, 121, 13, 65, 238, 142, 218, 211, 136, 235, 46, 30, 252,
    70, 218, 87, 200, 252, 230, 48, 223, 145, 65, 190, 40 >>, {32})
Ctr3 ==
  Use("ctr", <<
    118, 145, 190, 3, 94, 80, 32, 168, 172, 110, 97, 133, 41, 249, 160, 220 >>,
    <<
    0, 224, 1, 123, 39, 119, 127, 63, 74, 23, 134, 240, 0, 0, 0, 1 >>,
    <<
    0, 1, 2, 3, 4, 5, 6, 7, 8, 9, 10, 11, 12, 13, 14, 15, 16, 17, 18, 19, 20, 21, 22, 23, 24,
    25, 26, 27, 28, 29, 30, 31, 32, 33, 34, 35 >>,
    <<
    193, 207, 72, 168, 159, 47, 253, 217, 207, 70, 82, 233, 239, 219, 114, 215, 69, 64, 164,
    43, 222, 109, 120, 54, 213, 154, 92, 234, 174, 243, 16, 83, 37, 178, 7, 47 >>, {36, 9})

Zeros(n) == [i \in 1..n |-> 0]
BackAndForth ==
    {Use(mode, Zeros(n), Zeros(16), Cfb128Text, <<>>, {32}) :
        mode \in {"ecb", "cbc"}, n \in {16, 24, 32}}

\* A key of a length that is refused.
WrongKey == Use("ecb", Zeros(20), Zeros(16), Cfb128Text, <<>>, {16})

AesUses ==
    {Cfb128With128, Cfb128With192, Cfb128With256, Ctr1, Ctr2, Ctr3, WrongKey} \cup BackAndForth
=============================================================================
