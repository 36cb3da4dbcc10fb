--------------------------- MODULE MCDashboardCompat ---------------------------
(***************************************************************************)
(* DashboardCompat with the bundled style sheet: the seven variables of all *)
(* 35 themes in hexadecimal, and in lab() for the themes of the integration *)
(* tests.                                                                   *)
(***************************************************************************)
EXTENDS DashboardCompat

H(n) == HexText(n)
S(n) == Text("hex", <<n \div 256, (n \div 16) % 16, n % 16>>, Absent)
L(l, a, b) == Text("lab", <<Percent(l), Number(a), Number(b)>>, Absent)

Named(texts) ==
    [v \in Variables |->
        texts[CHOOSE i \in 1..7 : <<"base-100", "base-200", "base-300", "base-content", "primary",
                                    "primary-content", "error">>[i] = v]]

Hex(texts) == [hex |-> Named(texts)]
Both(texts, labs) == [hex |-> Named(texts), lab |-> Named(labs)]

MCStylesheet == [
    light |-> Both(<<S(\hfff), H(\hf8f8f8), S(\heee), H(\h18181b), H(\h422ad5), H(\he0e7ff),
              H(\hff657f)>>,
          <<L(1000000, 0, 0), L(976800, 0, 0), L(942000, 0, 0), L(83060, 6182, -21657),
            L(315730, 498670, -847065), L(916577, 10459, -127199),
            L(641803, 630275, 192122)>>),
    dark |-> Both(<<H(\h1d232a), H(\h191e24), H(\h15191e), H(\hf2f8ff), H(\h605dff),
              H(\hedf1fe), H(\hff657f)>>,
          <<L(133466, -12732, -56745), L(109483, -10722, -49879), L(85032, -8634, -43014),
            L(973754, -18668, -106283), L(476934, 385675, -819644), L(952498, 4115, -67852),
            L(641803, 630275, 192122)>>),
    cupcake |-> Hex(<<H(\hfaf7f5), H(\hefeae6), H(\he7e2df), H(\h291334), H(\h44ebd3),
              H(\h005d58), H(\hfe1c55)>>),
    bumblebee |-> Hex(<<S(\hfff), H(\hf5f5f5), H(\he4e4e4), H(\h161616), H(\hf7c800),
              H(\h733e0a), H(\hff6266)>>),
    emerald |-> Hex(<<S(\hfff), H(\he8e8e8), H(\hd1d1d1), H(\h333c4d), H(\h66cc8a),
              H(\h223d30), H(\hff676a)>>),
    corporate |-> Hex(<<S(\hfff), H(\he8e8e8), H(\hd1d1d1), H(\h181a2a), H(\h0082c4),
              S(\hfff), H(\hff6266)>>),
    synthwave |-> Hex(<<H(\h09002f), H(\h120b3d), H(\h1c184b), H(\ha2b2ff), H(\hf861b4),
              H(\h500323), H(\hec8c78)>>),
    retro |-> Hex(<<H(\hece3ca), H(\he4d8b4), H(\hdbca9b), H(\h793205), H(\hff9fa0),
              H(\h801518), H(\hff6266)>>),
    cyberpunk |-> Hex(<<H(\hfff25a), H(\hf7e83a), H(\he3d40e), S(\h000), H(\hff7299),
              H(\h180408), H(\hff676a)>>),
    valentine |-> Hex(<<H(\hfcf2f8), H(\hf9e4f0), H(\hf9cbe5), H(\hc2005b), H(\hf43098),
              S(\hfff), H(\hf82834)>>),
    halloween |-> Hex(<<H(\h1b1816), H(\h0b0908), S(\h000), H(\hcdcdcd), H(\hff960c),
              H(\h131616), H(\hf35248)>>),
    garden |-> Hex(<<H(\he9e7e7), H(\hd4d2d2), H(\hbebdbd), H(\h100f0f), H(\hf80076),
              S(\hfff), H(\hff676a)>>),
    forest |-> Hex(<<H(\h1b1717), H(\h161212), H(\h110d0d), H(\hcac9c9), H(\h1fb854),
              S(\h000), H(\hff676a)>>),
    aqua |-> Hex(<<H(\h1a368b), H(\h162455), H(\h091444), H(\hb8e6fe), H(\h13ecf3),
              H(\h015355), H(\hff7c6f)>>),
    lofi |-> Hex(<<S(\hfff), H(\hf5f5f5), H(\hebebeb), S(\h000), H(\h0d0d0d), S(\hfff),
              H(\hff9789)>>),
    pastel |-> Hex(<<S(\hfff), H(\hf9fafb), H(\he5e6e7), H(\h161616), H(\he8d4ff),
              H(\h8000d7), H(\hff9fa0)>>),
    fantasy |-> Hex(<<S(\hfff), H(\he8e8e8), H(\hd1d1d1), H(\h1f2937), H(\h6b0072),
              H(\he3cee4), H(\hff676a)>>),
    wireframe |-> Hex(<<S(\hfff), H(\hf5f5f5), H(\hebebeb), H(\h161616), H(\hd4d4d4),
              H(\h242424), H(\h9d0410)>>),
    black |-> Both(<<S(\h000), H(\h141414), H(\h1b1b1b), H(\hd6d6d6), H(\h3a3a3a), S(\hfff),
              H(\hff0301)>>,
          <<L(0, 0, 0), L(61957, 0, 0), L(95200, 0, 0), L(856264, 0, 0), L(246000, 0, 0),
            L(1000000, 0, 0), L(542976, 805821, 694726)>>),
    luxury |-> Hex(<<H(\h09090b), H(\h171618), H(\h1e1d1f), H(\hdca54d), S(\hfff),
              H(\h161616), H(\hff6f6f)>>),
    dracula |-> Both(<<H(\h282a36), H(\h232530), H(\h1f202a), H(\hf8f8f3), H(\hff79c6),
              H(\h16050e), S(\hf55)>>,
          <<L(172524, 15179, -80581), L(149297, 13702, -73294), L(125964, 13126, -69586),
            L(974463, -6891, 25552), L(690262, 580846, -150602), L(28499, 66875, -16447),
            L(610594, 651267, 380719)>>),
    cmyk |-> Hex(<<S(\hfff), S(\heee), H(\hdedede), H(\h161616), H(\h45aeee), H(\h020b13),
              H(\he93f33)>>),
    autumn |-> Hex(<<H(\hf1f1f1), H(\hdbdbdb), H(\hc5c5c5), H(\h141414), H(\h8c0327),
              H(\hedd0d0), H(\hcf001e)>>),
    business |-> Hex(<<H(\h202020), H(\h1c1c1c), H(\h181818), H(\hcdcdcd), H(\h1c4e80),
              H(\hd0dae5), H(\hac3e31)>>),
    acid |-> Hex(<<H(\hf8f8f8), S(\heee), H(\he1e1e1), S(\h000), H(\hff24fb), H(\h180016),
              H(\hff1d12)>>),
    lemonade |-> Hex(<<H(\hf8fdef), H(\he1e6d9), H(\hcbcfc3), H(\h151614), H(\h4b9200),
              H(\h020800), H(\hefc6c2)>>),
    night |-> Both(<<H(\h0f172a), H(\h0c1425), H(\h0a1120), H(\hc9cbd0), H(\h3abdf7),
              H(\h010d15), H(\hfb7085)>>,
          <<L(77856, 15035, -140094), L(62549, 12775, -130361), L(49478, 9936, -113494),
            L(815860, -1314, -26480), L(715903, -216132, -398504), L(31112, -21436, -53237),
            L(653604, 553293, 162444)>>),
    coffee |-> Both(<<H(\h261b25), H(\h1e151d), H(\h120a11), H(\hc59f61), H(\hdb924c),
              H(\h110802), H(\hfc9581)>>,
          <<L(115186, 67309, -42820), L(80662, 61445, -39074), L(35421, 34597, -22860),
            L(680107, 87247, 378636), L(671253, 234281, 480589), L(26605, 23265, 31773),
            L(725858, 381292, 280821)>>),
    winter |-> Hex(<<S(\hfff), H(\hf2f7fe), H(\he3e9f4), H(\h394e6a), H(\h006ef6),
              H(\hd0e4ff), H(\he58b8b)>>),
    dim |-> Both(<<H(\h2a303c), H(\h242933), H(\h20252e), H(\hb2ccd6), H(\h9fe88d),
              H(\h091307), H(\hffae9b)>>,
          <<L(196723, -1794, -84650), L(164233, -1853, -70084), L(144764, -3825, -66122),
            L(803291, -74075, -80056), L(855861, -360239, 365857), L(48514, -47184, 41982),
            L(788025, 287108, 223150)>>),
    nord |-> Both(<<H(\heceff4), H(\he5e9f0), H(\hd8dee9), H(\h2e3440), H(\h5e81ac),
              H(\h03060b), H(\hbf616a)>>,
          <<L(943240, -3397, -26237), L(921906, -4134, -37525), L(882495, -5372, -59980),
            L(215129, -2141, -81148), L(526518, -37474, -270171), L(14988, -2415, -21367),
            L(529945, 389133, 131792)>>),
    sunset |-> Hex(<<H(\h121c22), H(\h0e171e), H(\h091319), H(\h9fb9d0), H(\hff865b),
              H(\h160603), H(\hffbbbd)>>),
    caramellatte |-> Hex(<<H(\hfff7ed), H(\hfeecd3), H(\hffd6a7), H(\h7c2808), S(\h000),
              S(\hfff), H(\hff6266)>>),
    abyss |-> Hex(<<H(\h001b20), H(\h000f14), H(\h000406), H(\hffd6a7), H(\hc2fd00),
              H(\h526f00), H(\hf04e4f)>>),
    silk |-> Hex(<<H(\hf7f5f3), H(\hf3ede9), H(\he2ddd9), H(\h4b4743), H(\h1c1c29),
              H(\he2fd00), H(\hff817f)>>)]
-----------------------------------------------------------------------------
Half == Percent(500000)

Engine(mixes, probe, raw, computed) ==
    [mixes |-> mixes, syntax |-> TRUE, probe |-> probe, raw |-> raw, computed |-> computed]

\* rgb(64, 128, 192) at half opacity, as engines serialize it
Renderings == {
    RgbText(64, 128, 192, Number(5000)),
    Text("rgb", <<Percent(250980), Percent(501961), Percent(752941)>>, Half),
    Text("rgb", <<Number(640000), Number(1280000), Number(1920000), Number(5000)>>, Absent),
    Text("srgb", <<Number(2510), Number(5020), Number(7529)>>, Number(5000)),
    Text("oklab", <<Number(5872), Number(-395), Number(-1119)>>, Number(5000)),
    Text("oklab", <<Percent(587200), Number(-395), Number(-1119)>>, Half)}

\* an engine without color-mix(): what it makes of the theme's variables and of
\* the probe, which may stay empty, transparent or unmixed
Fallbacks == {
    <<"hex", "theme", NoText>>,
    <<"lab", "theme", Text("transparent", <<>>, Absent)>>,
    <<"none", "theme", RgbText(0, 0, 0, Number(0))>>,
    <<"none", "rejected", RgbText(64, 128, 192, Absent)>>,
    <<"none", "transparent", Text("rgb", <<Garbage, Garbage, Garbage>>, Absent)>>,
    <<"none", "inherited", Text("oklab", <<Number(5872), Number(-395), Number(-1119)>>, Absent)>>}

MCEngines ==
    {Engine(TRUE, p, "lab", "theme") : p \in Renderings}
    \cup {Engine(FALSE, f[3], f[1], f[2]) : f \in Fallbacks}

MCFirstThemes == DOMAIN MCStylesheet \cup {NoTheme}
MCDocumentThemes == {"dark", NoTheme}

Class(kind, variable, alpha) == [kind |-> kind, variable |-> variable, alpha |-> alpha]

MCPageClasses == {
    {},
    {Class("text", "base-content", 20), Class("text", "current", 50)},
    {Class("text", "base-content", 70), Class("bg", "error", 150), Class("font", "mono", 0)}}
=============================================================================
