-------------------------------- MODULE Rle --------------------------------
(***************************************************************************)
(* One picture of the OSD on its way from VDR to the player: compressed    *)
(* for the network (tools/rle.c, used by cXinelibServer::OsdCmd()), decoded *)
(* into the window at the other end (rle.c, uncompress_osd_net() of        *)
(* xine_input_vdr.c), and scaled in its compressed form.                   *)
(*                                                                         *)
(* Code is a sequence of bytes of Byte values, 256 in the program: the     *)
(* flags of a length byte are its two highest bits and move with it.  A    *)
(* pixel is a number: a palette index, or, in an ARGB picture, twice its   *)
(* alpha plus its colour, a dword of these two bytes.                      *)
(***************************************************************************)
EXTENDS Integers, SequencesExt, FiniteSetsExt

CONSTANTS Byte,         \* values of a byte (256), a multiple of 4
          Pixels,       \* pixels of the pictures, below Byte
          PictureSizes, \* model bound: <<width, height>> of the pictures
          ScaledSizes   \* model bound: <<width, height>> they are scaled to

Factor == 256           \* FACTORBASE
LongRun == Byte \div 4          \* 0x40
ColourRun == Byte \div 2        \* 0x80
Unknown == Byte - 1             \* 0xff, the colour of a line that ends early

VARIABLES
  drawn,      \* the picture: a sequence of lines of pixels
  code,       \* how it is compressed, the bytes, how many codes they are
  surface,    \* the pixels of the window, or the decoder's failure
  elems,      \* the palette picture as runs [len, color], as xine has it
  scaled      \* the scaled picture: per line the old one it shows, and its runs

rleVars == <<drawn, code, surface, elems, scaled>>

Kinds == {"net", "hdmv", "argbrle"}
Failed == <<>>

Width == Len(drawn[1])
Height == Len(drawn)
Bytes == code.bytes

-----------------------------------------------------------------------------
(* The compressor.                                                         *)

Alpha(p) == p \div 2

Transparent(kind, p) == IF kind = "argbrle" THEN Alpha(p) = 0 ELSE p = 0

\* The colours of transparent ARGB pixels are ignored.
Same(kind, p, q) ==
  \/ p = q
  \/ kind = "argbrle" /\ Transparent(kind, p) /\ Transparent(kind, q)

(* A line as runs (the loop of rle_compress(), rle_compress_hdmv() and     *)
(* rle_compress_argbrle()).                                                *)
Runs(kind, line) ==
  FoldLeft(LAMBDA runs, p :
             IF runs # <<>> /\ Same(kind, Last(runs).color, p)
             THEN [runs EXCEPT ![Len(runs)].len = @ + 1]
             ELSE Append(runs, [len |-> 1, color |-> p]),
           <<>>, line)

Total(runs) == FoldLeft(LAMBDA n, r : n + r.len, 0, runs)

WriteColor(kind, p) == IF kind = "argbrle" THEN <<Alpha(p), p % 2>> ELSE <<p>>

WriteLen(len, flag) ==
  IF len < LongRun THEN <<flag + len>>
  ELSE <<flag + LongRun + ((len \div Byte) % LongRun), len % Byte>>

(* write_rle_hdmv(), write_rle_argb(): short runs that are not transparent *)
(* are pixels, everything else follows a marker.                           *)
WriteRun(kind, r) ==
  IF ~Transparent(kind, r.color) /\ r.len < (IF kind = "argbrle" THEN 2 ELSE 4)
  THEN FlattenSeq([i \in 1 .. r.len |-> WriteColor(kind, r.color)])
  ELSE IF Transparent(kind, r.color) THEN <<0>> \o WriteLen(r.len, 0)
  ELSE <<0>> \o WriteLen(r.len, ColourRun) \o WriteColor(kind, r.color)

EndOfLine == [len |-> 0, color |-> 0]

(* Wrong variant, for the sensitivity checks: the transparent tail of any  *)
(* line is left to its end.                                                *)
LineCodesDropTail(kind, line) ==
  LET runs == Runs(kind, line)
  IN Append(IF Transparent(kind, Last(runs).color) THEN Front(runs) ELSE runs, EndOfLine)

(* The codes of a line; a transparent tail of an ARGB line is left to the  *)
(* end of the line.                                                        *)
LineCodes(kind, line) ==
  LET runs == Runs(kind, line)
      kept == IF kind = "argbrle" /\ Transparent(kind, Last(runs).color)
              THEN Front(runs) ELSE runs
  IN Append(kept, EndOfLine)

(* rle_recompress_net(): a length of ColourRun and more takes two bytes.   *)
NetCode(r) ==
  (IF r.len >= ColourRun THEN <<ColourRun + (r.len \div Byte), r.len % Byte>> ELSE <<r.len>>)
  \o <<r.color>>

CodesOf(kind) ==
  FlattenSeq([y \in 1 .. Height |-> IF kind = "net" THEN Runs(kind, drawn[y])
                                    ELSE LineCodes(kind, drawn[y])])

(* cXinelibServer::OsdCmd().                                               *)
RleEncode ==
  /\ code.kind = "none" /\ drawn # <<>>
  /\ \E kind \in Kinds :
       LET codes == CodesOf(kind)
       IN code' = [kind |-> kind, num |-> Len(codes),
                   bytes |-> FlattenSeq([i \in 1 .. Len(codes) |->
                                           IF kind = "net" THEN NetCode(codes[i])
                                           ELSE WriteRun(kind, codes[i])])]
  /\ UNCHANGED <<drawn, surface, elems, scaled>>

-----------------------------------------------------------------------------
(* The decoders.                                                           *)

(* uncompress_osd_net(): one element from position i.                      *)
NetElem(st) ==
  LET b == Bytes[st.i]
      long == b >= ColourRun
      color == Bytes[st.i + IF long THEN 2 ELSE 1]
  IN [i |-> st.i + IF long THEN 3 ELSE 2,
      elems |-> Append(st.elems, [len |-> IF long THEN (b % ColourRun) * Byte + Bytes[st.i + 1]
                                          ELSE b, color |-> color])]

(* A code behind its marker: its length, whether a colour follows, where   *)
(* (decode_len()).                                                         *)
ReadLen(i) ==
  LET f == Bytes[i]
      long == (f \div LongRun) % 2 = 1
  IN [len |-> IF long THEN (f % LongRun) * Byte + Bytes[i + 1] ELSE f % LongRun,
      color |-> f >= ColourRun, next |-> i + IF long THEN 2 ELSE 1]

(* rle_uncompress_hdmv(): a pixel that repeats the run before it in its    *)
(* line joins it; a line that ends early is filled up.                     *)
HdmvElem(st) ==
  LET plain == Bytes[st.i] # 0
      l == ReadLen(st.i + 1)
      r == IF plain THEN [len |-> 1, color |-> Bytes[st.i]]
           ELSE [len |-> l.len, color |-> IF l.color THEN Bytes[l.next] ELSE 0]
      i == IF plain THEN st.i + 1 ELSE l.next + IF l.color THEN 1 ELSE 0
      n == Len(st.elems)
  IN IF n >= 2 * code.num \/ st.x > Width THEN [st EXCEPT !.failed = TRUE]
     ELSE IF r.len = 0
     THEN [st EXCEPT !.i = i, !.x = 0, !.y = @ + 1,
                     !.elems = IF st.x < Width - 1
                               THEN Append(@, [len |-> Width - st.x, color |-> Unknown]) ELSE @]
     ELSE IF r.len = 1 /\ st.x > 0 /\ st.elems[n].color = r.color
     THEN [st EXCEPT !.i = i, !.x = @ + 1, !.elems[n].len = @ + 1]
     ELSE [st EXCEPT !.i = i, !.x = @ + r.len, !.elems = Append(@, r)]

Put(line, x, len, p) ==
  [k \in DOMAIN line |-> IF k > x /\ k <= x + len THEN p ELSE line[k]]

(* rle_uncompress_argbrle(), drawn over the window: the end of a line      *)
(* clears its rest but for the last pixel.                                 *)
ArgbCode(st) ==
  LET plain == Bytes[st.i] # 0
      l == ReadLen(st.i + 1)
      DwordAt(k) == 2 * Bytes[k] + Bytes[k + 1]
      Drawn(len, p) == [st.pixels EXCEPT ![st.y + 1] = Put(@, st.x, len, p)]
      next == [st EXCEPT !.count = @ + 1]
  IN IF st.count >= code.num \/ st.x + (IF plain THEN 1 ELSE l.len) > Width
     THEN [st EXCEPT !.failed = TRUE]
     ELSE IF plain
     THEN [next EXCEPT !.i = @ + 2, !.x = @ + 1, !.pixels = Drawn(1, DwordAt(st.i))]
     ELSE IF l.color
     THEN [next EXCEPT !.i = l.next + 2, !.x = @ + l.len, !.pixels = Drawn(l.len, DwordAt(l.next))]
     ELSE IF l.len > 0
     THEN [next EXCEPT !.i = l.next, !.x = @ + l.len, !.pixels = Drawn(l.len, 0)]
     ELSE [next EXCEPT !.i = l.next, !.x = 0, !.y = @ + 1,
                       !.pixels = Drawn(Width - st.x - 1, 0)]

(* A decoder goes on until it has all lines; it fails when the code ends.  *)
Decoded(kind, st) ==
  FoldLeft(LAMBDA s, k : IF s.failed \/ s.y = Height THEN s
                         ELSE IF s.i > Len(Bytes) THEN [s EXCEPT !.failed = TRUE]
                         ELSE IF kind = "hdmv" THEN HdmvElem(s) ELSE ArgbCode(s),
           st, [k \in 1 .. Len(Bytes) + 1 |-> k])

Start == [i |-> 1, x |-> 0, y |-> 0, failed |-> FALSE, count |-> 0,
          elems |-> <<>>, pixels |-> surface]

DecodedElems ==
  IF code.kind = "net"
  THEN FoldLeft(LAMBDA s, k : NetElem(s), [i |-> 1, elems |-> <<>>],
                [k \in 1 .. code.num |-> k]).elems
  ELSE LET s == Decoded("hdmv", Start) IN IF s.failed THEN Failed ELSE s.elems

(* rle_uncompress_lut8(), rle_uncompress_u32(): the runs one after the     *)
(* other, lines of the window's width.                                     *)
Unpacked(es) ==
  LET all == FlattenSeq([i \in DOMAIN es |-> [k \in 1 .. es[i].len |-> es[i].color]])
  IN [y \in 1 .. Height |-> [x \in 1 .. Width |->
        LET k == (y - 1) * Width + x IN IF k <= Len(all) THEN all[k] ELSE surface[y][x]]]

(* The input plugin hands the decoded runs on with the number of codes     *)
(* that came, the ends of the lines of hdmv included (read_osd_command()). *)
Counted(es) ==
  IF es = Failed THEN Failed
  ELSE [i \in 1 .. code.num |-> IF i <= Len(es) THEN es[i] ELSE EndOfLine]

DecodePalette ==
  /\ code.kind \in {"net", "hdmv"}
  /\ elems' = Counted(DecodedElems)
  /\ surface' = IF elems' = Failed THEN Failed ELSE Unpacked(elems')
  /\ code' = [code EXCEPT !.kind = "palette", !.bytes = <<>>]
  /\ UNCHANGED <<drawn, scaled>>

DecodeArgb ==
  /\ code.kind = "argbrle"
  /\ LET s == Decoded("argbrle", Start)
     IN surface' = IF s.failed \/ s.count # code.num THEN Failed ELSE s.pixels
  /\ code' = [code EXCEPT !.kind = "argb", !.bytes = <<>>]
  /\ UNCHANGED <<drawn, elems, scaled>>
-----------------------------------------------------------------------------
(* rle_scale_nearest(): a compressed picture is scaled line by line.       *)

\* The runs of each line; every line ends with a run.
Lines(es) ==
  FoldLeft(LAMBDA ls, r :
             IF r.len = 0 THEN ls
             ELSE IF ls # <<>> /\ Total(Last(ls)) < Width
             THEN [ls EXCEPT ![Len(ls)] = Append(@, r)] ELSE Append(ls, <<r>>),
           <<>>, es)

(* Every run of a line ends where its end is scaled to; runs of no length  *)
(* are left out.                                                           *)
ScaledRuns(runs, new_w) ==
  LET factor == (Factor * new_w) \div Width
  IN FoldLeft(LAMBDA s, r :
                LET end == Min({(factor * (s.old + r.len)) \div Factor, new_w})
                IN [old |-> s.old + r.len, new |-> end,
                    runs |-> IF end > s.new
                             THEN Append(s.runs, [r EXCEPT !.len = end - s.new]) ELSE s.runs],
              [old |-> 0, new |-> 0, runs |-> <<>>], runs)

(* Wrong variant, for the sensitivity checks: what rounding has left of    *)
(* the line is missing.                                                    *)
ScaleLineShort(runs, new_w) == ScaledRuns(runs, new_w).runs

(* What rounding has left of the line belongs to its last run; when it has *)
(* left no run, the code writes in front of the line.                      *)
ScaleLine(runs, new_w) ==
  LET scale == ScaledRuns(runs, new_w)
      n == Len(scale.runs)
  IN [i \in 1 .. n |-> IF i = n THEN [scale.runs[i] EXCEPT !.len = @ + new_w - scale.new]
                       ELSE scale.runs[i]]

(* How often the line just scaled is repeated: up to where it is scaled    *)
(* to, the last one to the end but for one line.                           *)
Repeats(old_y, new_y, new_h) ==
  LET factor == (Factor * new_h) \div Height
      wanted == IF old_y = Height THEN new_h - new_y - 1
                ELSE (factor * old_y) \div Factor - new_y
      room == Max({new_h - 1 - new_y, 0})
  IN IF factor <= Factor THEN 0
     ELSE IF wanted < 0 THEN room ELSE Min({wanted, room})

(* How many of the next lines are skipped: the last one is not while the   *)
(* picture is not complete.                                                *)
Skips(old_y, new_y, new_h) ==
  LET factor == (Factor * new_h) \div Height
      wanted == new_y - (factor * old_y) \div Factor
      left == Height - old_y
  IN IF factor >= Factor \/ (left = 1 /\ new_y < new_h) THEN 0
     ELSE IF wanted < 0 THEN left ELSE Min({wanted, left})

(* The old line each new one shows.                                        *)
ScaledRows(new_h) ==
  FoldLeft(LAMBDA s, k :
             IF s.old >= Height THEN s
             ELSE LET n == 1 + Repeats(s.old + 1, Len(s.rows) + 1, new_h)
                      rows == s.rows \o [i \in 1 .. n |-> s.old + 1]
                  IN [rows |-> rows, old |-> s.old + 1 + Skips(s.old + 1, Len(rows), new_h)],
           [rows |-> <<>>, old |-> 0], [k \in 1 .. Height |-> k]).rows

(* osdcmd_scale() and the scaler of vo_osdscaler.c.                        *)
RleScale ==
  /\ code.kind = "palette" /\ elems # Failed /\ scaled = <<>>
  /\ \E size \in ScaledSizes :
       LET rows == ScaledRows(size[2])
       IN scaled' = [width |-> size[1], height |-> size[2],
                     lines |-> [i \in DOMAIN rows |->
                                  [row |-> rows[i],
                                   runs |-> ScaleLine(Lines(elems)[rows[i]], size[1])]]]
  /\ UNCHANGED <<drawn, code, surface, elems>>
-----------------------------------------------------------------------------
(* VDR draws a picture, for a window that shows one colour.                *)
RleDraw ==
  /\ code.kind = "none" /\ drawn = <<>>
  /\ \E size \in PictureSizes :
       /\ drawn' \in [1 .. size[2] -> [1 .. size[1] -> Pixels]]
       /\ surface' = [y \in 1 .. size[2] |-> [x \in 1 .. size[1] |-> Unknown]]
  /\ UNCHANGED <<code, elems, scaled>>

RleInit ==
  /\ drawn = <<>> /\ surface = <<>>
  /\ code = [kind |-> "none", num |-> 0, bytes |-> <<>>]
  /\ elems = <<>> /\ scaled = <<>>

RleNext == RleDraw \/ RleEncode \/ DecodePalette \/ DecodeArgb \/ RleScale

(* Type invariant: what is sent are bytes, and the picture keeps its size. *)
RleTypeOK ==
  /\ \A i \in DOMAIN Bytes : Bytes[i] \in 0 .. Byte - 1
  /\ surface # Failed => surface \in [1 .. Height -> [1 .. Width -> 0 .. Byte - 1]]

(* What the window shows is what VDR has drawn, pixel by pixel; a          *)
(* transparent pixel need not keep its colour, and at the end of an ARGB   *)
(* line it keeps what the window showed before (rle_uncompress_argbrle()   *)
(* clears one pixel too few).                                              *)
ShownAsDrawn ==
  code.kind \in {"palette", "argb"} =>
    /\ surface # Failed
    /\ \A y \in 1 .. Height, x \in 1 .. Width :
         \/ surface[y][x] = drawn[y][x]
         \/ /\ code.kind = "argb" /\ Alpha(drawn[y][x]) = 0
            /\ (Alpha(surface[y][x]) = 0 \/ x = Width)

(* A scaled picture has lines of the new width, old lines in their order   *)
(* beginning with the first, and it is not higher than its overlay unless  *)
(* it is scaled below one half; scaled up, it shows every line and lacks   *)
(* one at the end (rle_scale_nearest()).  A line scaled to one pixel may   *)
(* lose all of its runs.                                                   *)
ScaledInOrder ==
  scaled # <<>> =>
    LET lines == scaled.lines
        new_h == scaled.height
    IN /\ \A i \in DOMAIN lines : \/ Total(lines[i].runs) = scaled.width
                                  \/ scaled.width = 1 /\ lines[i].runs = <<>>
       /\ lines[1].row = 1
       /\ \A i \in 2 .. Len(lines) : lines[i].row >= lines[i - 1].row
       /\ 2 * new_h >= Height => Len(lines) <= new_h
       /\ new_h > Height => /\ Len(lines) = new_h - 1
                            /\ {lines[i].row : i \in DOMAIN lines} = 1 .. Height
=============================================================================
