--------------------------- MODULE DashboardColors ---------------------------
(***************************************************************************)
(* The colour arithmetic of clashfx-compat.js, the script that repairs the  *)
(* bundled dashboard in WebKit engines without color-mix(): how a CSS value *)
(* is read, which colour stands in for an unusable one, and how a text      *)
(* colour is moved until it can be read on every surface.                   *)
(*                                                                         *)
(* Floats become integers: a channel counts hundredths of an 8-bit step, an *)
(* alpha or a share percents, linear light 1/100000, and a number in CSS    *)
(* text 1/10000.  Hues are multiples of 30 degrees.  A CSS value is the     *)
(* record of what the script's regular expressions extract from it.         *)
(*                                                                         *)
(* An operator named D_<Fault> is the definition D with a plausible bug in *)
(* it.  No definition uses one: each shows that some property would notice.*)
(***************************************************************************)
EXTENDS Integers, Sequences, FiniteSetsExt

Clamp(v, low, high) == Min({high, Max({low, v})})

\* null, and a number that is not finite
NoColor == [red |-> 0, green |-> 0, blue |-> 0, alpha |-> -1]
NaN == -2000000000

Opaque(r, g, b) == [red |-> r, green |-> g, blue |-> b, alpha |-> 100]

\* colorResult
Color(r, g, b, a) ==
    IF NaN \in {r, g, b, a} THEN NoColor
    ELSE [red   |-> Clamp(r, 0, 25500), green |-> Clamp(g, 0, 25500),
          blue  |-> Clamp(b, 0, 25500), alpha |-> Clamp(a, 0, 100)]

White == Opaque(25500, 25500, 25500)
Black == Opaque(0, 0, 0)
-----------------------------------------------------------------------------
(* CSS text: the notation, its channels and its alpha.                      *)

Number(n)  == [kind |-> "number", n |-> n]
Percent(n) == [kind |-> "percent", n |-> n]
Garbage    == [kind |-> "garbage", n |-> 0]
Absent     == [kind |-> "absent", n |-> 0]

Text(form, channels, alpha) == [form |-> form, channels |-> channels, alpha |-> alpha]

\* '', and whatever no pattern matches, such as oklab-mix expressions
NoText == Text("other", <<>>, Absent)

\* '#rrggbb'
HexText(n) ==
    Text("hex", [i \in 1..6 |-> (n \div <<1048576, 65536, 4096, 256, 16, 1>>[i]) % 16], Absent)

RgbText(r, g, b, a) == Text("rgb", <<Number(r * 10000), Number(g * 10000), Number(b * 10000)>>, a)

Palette(base, primary, content) ==
    [base |-> HexText(base), primary |-> HexText(primary), content |-> HexText(content)]

themePalette == [
    light        |-> Palette(\hffffff, \h422ad5, \h18181b),
    dark         |-> Palette(\h1d232a, \h605dff, \hf2f8ff),
    cupcake      |-> Palette(\hfaf7f5, \h44ebd3, \h291334),
    bumblebee    |-> Palette(\hffffff, \hf7c800, \h161616),
    emerald      |-> Palette(\hffffff, \h66cc8a, \h333c4d),
    corporate    |-> Palette(\hffffff, \h0082c4, \h181a2a),
    synthwave    |-> Palette(\h09002f, \hf861b4, \ha2b2ff),
    retro        |-> Palette(\hece3ca, \hff9fa0, \h793205),
    cyberpunk    |-> Palette(\hfff25a, \hff7299, \h000000),
    valentine    |-> Palette(\hfcf2f8, \hf43098, \hc2005b),
    halloween    |-> Palette(\h1b1816, \hff960c, \hcdcdcd),
    garden       |-> Palette(\he9e7e7, \hf80076, \h100f0f),
    forest       |-> Palette(\h1b1717, \h1fb854, \hcac9c9),
    aqua         |-> Palette(\h1a368b, \h13ecf3, \hb8e6fe),
    lofi         |-> Palette(\hffffff, \h0d0d0d, \h000000),
    pastel       |-> Palette(\hffffff, \he8d4ff, \h161616),
    fantasy      |-> Palette(\hffffff, \h6b0072, \h1f2937),
    wireframe    |-> Palette(\hffffff, \hd4d4d4, \h161616),
    black        |-> Palette(\h000000, \h3a3a3a, \hd6d6d6),
    luxury       |-> Palette(\h09090b, \hffffff, \hdca54d),
    dracula      |-> Palette(\h282a36, \hff79c6, \hf8f8f3),
    cmyk         |-> Palette(\hffffff, \h45aeee, \h161616),
    autumn       |-> Palette(\hf1f1f1, \h8c0327, \h141414),
    business     |-> Palette(\h202020, \h1c4e80, \hcdcdcd),
    acid         |-> Palette(\hf8f8f8, \hff24fb, \h000000),
    lemonade     |-> Palette(\hf8fdef, \h4b9200, \h151614),
    night        |-> Palette(\h0f172a, \h3abdf7, \hc9cbd0),
    coffee       |-> Palette(\h261b25, \hdb924c, \hc59f61),
    winter       |-> Palette(\hffffff, \h006ef6, \h394e6a),
    dim          |-> Palette(\h2a303c, \h9fe88d, \hb2ccd6),
    nord         |-> Palette(\heceff4, \h5e81ac, \h2e3440),
    sunset       |-> Palette(\h121c22, \hff865b, \h9fb9d0),
    caramellatte |-> Palette(\hfff7ed, \h000000, \h7c2808),
    abyss        |-> Palette(\h001b20, \hc2fd00, \hffd6a7),
    silk         |-> Palette(\hf7f5f3, \h1c1c29, \h4b4743)]

\* component: a percentage is a share of num/den per cent
Component(token, num, den) ==
    CASE token.kind = "number"  -> token.n
      [] token.kind = "percent" -> (token.n * num) \div den
      [] OTHER                  -> NaN

\* Number(), which knows no percentages
NumberOf(token) == IF token.kind = "number" THEN token.n ELSE NaN

AlphaComponent(token) ==
    LET alpha == Component(token, 1, 100)
    IN  IF token = Absent THEN 100
        ELSE IF alpha = NaN THEN NaN
        ELSE Clamp(alpha \div 100, 0, 100)
-----------------------------------------------------------------------------
(* Colour spaces.                                                           *)

\* The sRGB transfer function at the channels 0, 3, 6, ... 255.
Linear == <<
    0, 91, 182, 273, 368, 478, 605, 750, 913, 1096, 1298, 1521, 1764, 2029,
    2315, 2624, 2956, 3310, 3689, 4092, 4519, 4971, 5448, 5951, 6480, 7036,
    7619, 8228, 8866, 9531, 10224, 10946, 11697, 12477, 13287, 14126, 14996,
    15896, 16827, 17789, 18782, 19807, 20864, 21953, 23074, 24228, 25415,
    26636, 27889, 29177, 30499, 31855, 33245, 34670, 36131, 37626, 39157,
    40724, 42327, 43966, 45641, 47353, 49102, 50888, 52712, 54572, 56471,
    58408, 60383, 62396, 64448, 66539, 68669, 70838, 73046, 75294, 77582,
    79910, 82279, 84687, 87137, 89627, 92158, 94731, 97345, 100000>>

LinearOf(channel) ==
    LET i == channel \div 300 + 1
    IN  IF channel % 300 = 0 THEN Linear[i]
        ELSE Linear[i] + ((Linear[i + 1] - Linear[i]) * (channel % 300)) \div 300

\* encodedSRGB: the inverse, clamped
EncodedSRGB(light) ==
    LET v == Clamp(light, 0, 100000)
        i == CHOOSE k \in 1..86 : Linear[k] <= v /\ (k = 86 \/ v < Linear[k + 1])
    IN  IF i = 86 THEN 25500
        ELSE 300 * (i - 1) + (300 * (v - Linear[i])) \div (Linear[i + 1] - Linear[i])

\* from 1/10000 to 1/100000
Cube(x) == (((x * x) \div 1000) * x) \div 10000

Dot(row, v) == (row[1] * v[1] + row[2] * v[2] + row[3] * v[3]) \div 1000

\* A row gives a channel of sRGB its weights.
Encode(rows, v, alpha) ==
    Color(EncodedSRGB(Dot(rows[1], v)), EncodedSRGB(Dot(rows[2], v)),
          EncodedSRGB(Dot(rows[3], v)), alpha)

ToD65_Forgotten(v) == v

\* D50, the white point of lab(), to D65, that of sRGB
ToD65(v) == <<Dot(<<956, -23, 63>>, v), Dot(<<-28, 1010, 21>>, v), Dot(<<12, -20, 1330>>, v)>>

LabToSRGB(lightness, axisA, axisB, alpha) ==
    LET fy == (lightness + 160000) \div 116
        inverse(f) == IF Cube(f) > 886 THEN Cube(f) ELSE ((116 * f - 160000) * 100) \div 9033
        xyz == <<(inverse(fy + axisA \div 500) * 9642) \div 10000, inverse(fy),
                 (inverse(fy - axisB \div 200) * 8252) \div 10000>>
    IN  Encode(<< <<3240, -1537, -499>>, <<-969, 1876, 42>>, <<56, -204, 1057>> >>,
               ToD65(xyz), alpha)

OklabToSRGB_SwappedAxes(lightness, axisA, axisB, alpha) ==
    LET lms == <<lightness + (3964 * axisB + 2158 * axisA) \div 10000,
                 lightness - (1056 * axisB +  639 * axisA) \div 10000,
                 lightness - ( 895 * axisB + 12915 * axisA) \div 10000>>
    IN  Encode(<< <<4077, -3308, 231>>, <<-1268, 2610, -341>>, <<-4, -703, 1708>> >>,
               [i \in 1..3 |-> Cube(lms[i])], alpha)

OklabToSRGB(lightness, axisA, axisB, alpha) ==
    LET lms == <<lightness + (3964 * axisA + 2158 * axisB) \div 10000,
                 lightness - (1056 * axisA +  639 * axisB) \div 10000,
                 lightness - ( 895 * axisA + 12915 * axisB) \div 10000>>
    IN  Encode(<< <<4077, -3308, 231>>, <<-1268, 2610, -341>>, <<-4, -703, 1708>> >>,
               [i \in 1..3 |-> Cube(lms[i])], alpha)

Cosine == <<1000, 866, 500, 0, -500, -866, -1000, -866, -500, 0, 500, 866>>

\* polarToCartesian
AxisA(chroma, hue) == (chroma * Cosine[((hue \div 300000) % 12) + 1]) \div 1000
AxisB(chroma, hue) == AxisA(chroma, hue - 900000)

LchToSRGB(lightness, chroma, hue, alpha) ==
    LabToSRGB(lightness, AxisA(chroma, hue), AxisB(chroma, hue), alpha)

OklchToSRGB(lightness, chroma, hue, alpha) ==
    OklabToSRGB(lightness, AxisA(chroma, hue), AxisB(chroma, hue), alpha)
-----------------------------------------------------------------------------
(* parseRenderedColor.                                                      *)

\* Short notations double each digit; five or seven digits are no colour.
ParseHex(digits) ==
    LET long == IF Len(digits) \in {3, 4} THEN [i \in 1..2 * Len(digits) |-> digits[(i + 1) \div 2]]
                ELSE digits
        byte(k) == 16 * long[2 * k - 1] + long[2 * k]
    IN  IF Len(long) \notin {6, 8} THEN NoColor
        ELSE Color(100 * byte(1), 100 * byte(2), 100 * byte(3),
                   IF Len(long) = 8 THEN (100 * byte(4)) \div 255 ELSE 100)

\* Every channel and the alpha must be numbers for Convert to be called.
Converted(first, second, third, alpha, Convert(_, _, _, _)) ==
    IF NaN \in {first, second, third, alpha} THEN NoColor
    ELSE Convert(first, second, third, alpha)

RgbToSRGB(r, g, b, alpha) == Color(r \div 100, g \div 100, b \div 100, alpha)

UnitToSRGB(r, g, b, alpha) ==
    Color((r * 255) \div 100, (g * 255) \div 100, (b * 255) \div 100, alpha)

\* rgba() with commas has its alpha as a fourth channel
RgbAlpha(v) == IF v.alpha = Absent /\ Len(v.channels) = 4 THEN v.channels[4] ELSE v.alpha

ParseRenderedColor(v) ==
    LET c == v.channels
        alpha == AlphaComponent(v.alpha)
    IN  CASE v.form = "transparent" -> Color(0, 0, 0, 0)
          [] v.form = "hex" -> ParseHex(c)
          [] v.form = "rgb" /\ Len(c) \in {3, 4} ->
               Converted(Component(c[1], 51, 20), Component(c[2], 51, 20),
                         Component(c[3], 51, 20), AlphaComponent(RgbAlpha(v)), RgbToSRGB)
          [] v.form = "srgb" /\ Len(c) = 3 ->
               Converted(NumberOf(c[1]), NumberOf(c[2]), NumberOf(c[3]), alpha, UnitToSRGB)
          [] v.form = "lab" /\ Len(c) = 3 ->
               Converted(Component(c[1], 1, 1), Component(c[2], 5, 4), Component(c[3], 5, 4),
                         alpha, LabToSRGB)
          [] v.form = "oklab" /\ Len(c) = 3 ->
               Converted(Component(c[1], 1, 100), Component(c[2], 1, 250),
                         Component(c[3], 1, 250), alpha, OklabToSRGB)
          [] v.form = "lch" /\ Len(c) = 3 ->
               Converted(Component(c[1], 1, 1), Component(c[2], 3, 2), NumberOf(c[3]),
                         alpha, LchToSRGB)
          [] v.form = "oklch" /\ Len(c) = 3 ->
               Converted(Component(c[1], 1, 100), Component(c[2], 1, 250), NumberOf(c[3]),
                         alpha, OklchToSRGB)
          [] OTHER -> NoColor

Distance(a, b) == IF a < b THEN b - a ELSE a - b

\* supportsRenderedColorMix, of what the probe's background is rendered as:
\* rgb(64, 128, 192) at half opacity, in whatever notation
IsExpectedProbe(c) ==
    /\ c # NoColor
    /\ Distance(c.red, 6400) <= 100 /\ Distance(c.green, 12800) <= 100
    /\ Distance(c.blue, 19200) <= 100 /\ Distance(c.alpha, 50) <= 2
-----------------------------------------------------------------------------
(* Colours that stand in, and contrast.                                     *)

Blend(foreground, background, share) ==
    LET mix(f, b) == (f * share + b * (100 - share)) \div 100
    IN  Opaque(mix(foreground.red, background.red), mix(foreground.green, background.green),
               mix(foreground.blue, background.blue))

Luminance(c) ==
    (2126 * LinearOf(c.red) + 7152 * LinearOf(c.green) + 722 * LinearOf(c.blue)) \div 10000

\* in hundredths
Contrast(first, second) ==
    LET a == Luminance(first)
        b == Luminance(second)
    IN  ((Max({a, b}) + 5000) * 100) \div (Min({a, b}) + 5000)

MinimumContrast(c, backgrounds) == Min({Contrast(c, b) : b \in backgrounds})

\* safeFallbackColor
SafeFallbackColor(variable, palette) ==
    LET base == ParseRenderedColor(palette.base)
        content == ParseRenderedColor(palette.content)
    IN  CASE variable = "base-100" -> base
          [] variable = "base-200" -> Blend(content, base, 8)
          [] variable = "base-300" -> Blend(content, base, 16)
          [] variable \in {"primary", "primary-content"} -> ParseRenderedColor(palette.primary)
          [] variable = "error" -> ParseRenderedColor(HexText(\hff657f))
          [] variable = "success" -> ParseRenderedColor(HexText(\h00d193))
          [] variable = "warning" -> ParseRenderedColor(HexText(\hf9b800))
          [] variable = "info" -> ParseRenderedColor(HexText(\h00bafc))
          [] OTHER -> content

Usable(c) == c.alpha > 0

\* the colour the probe element keeps if the engine rejects the assignment
Sentinel == RgbText(1, 2, 3, Absent)

IsSentinel(c) ==
    Distance(c.red, 100) < 50 /\ Distance(c.green, 200) < 50 /\ Distance(c.blue, 300) < 50

\* readVariableColor: the variable's text, else what the probe element computes
\* from it, else the stand-in
ReadVariableColor(variable, raw, computed, palette) ==
    LET parsedRoot == ParseRenderedColor(raw)
        parsedComputed == ParseRenderedColor(computed)
    IN  CASE Usable(parsedRoot) -> parsedRoot
          [] ~Usable(parsedRoot) /\ Usable(parsedComputed) /\ ~IsSentinel(parsedComputed) ->
               parsedComputed
          [] OTHER -> SafeFallbackColor(variable, palette)

\* resolvedVariableColor, of the colours read: dark surfaces that cannot be told
\* from the base are lifted towards the text
Lifted(variable, read) ==
    LET base == read["base-100"]
        color == read[variable]
    IN  IF /\ variable \in {"base-200", "base-300"}
           /\ Luminance(base) < 15000 /\ Contrast(base, color) < 115
        THEN Blend(read["base-content"], base, IF variable = "base-300" THEN 16 ELSE 8)
        ELSE color

\* rgb(): 8-bit
Rounded(c) ==
    LET eight(v) == 100 * ((v + 50) \div 100)
    IN  Opaque(eight(c.red), eight(c.green), eight(c.blue))

ReadableColor_FirstSurface(desired, backgrounds, alpha) ==
    LET start == Blend(desired, backgrounds[1], (alpha * desired.alpha) \div 100)
        seen == {backgrounds[1]}
        target == IF MinimumContrast(White, seen) >= MinimumContrast(Black, seen)
                  THEN White ELSE Black
        readable == {step \in 0..20 : MinimumContrast(Blend(target, start, 5 * step), seen) >= 470}
    IN  IF readable = {} THEN target ELSE Rounded(Blend(target, start, 5 * Min(readable)))

\* readableColor: in twenty steps from the desired colour to white or black
ReadableColor(desired, backgrounds, alpha) ==
    LET start == Blend(desired, backgrounds[1], (alpha * desired.alpha) \div 100)
        seen == {backgrounds[i] : i \in DOMAIN backgrounds}
        target == IF MinimumContrast(White, seen) >= MinimumContrast(Black, seen)
                  THEN White ELSE Black
        readable == {step \in 0..20 : MinimumContrast(Blend(target, start, 5 * step), seen) >= 470}
    IN  IF readable = {} THEN target ELSE Rounded(Blend(target, start, 5 * Min(readable)))

\* rgbaFor
Rgba(color, alpha) == [Rounded(color) EXCEPT !.alpha = Clamp((alpha * color.alpha) \div 100, 0, 100)]
=============================================================================
