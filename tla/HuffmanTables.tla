--------------------------- MODULE HuffmanTables ---------------------------
(***************************************************************************)
(* The tables of http/src/http2/hpack/huffman.rs for the bytes 0 to 255    *)
(* and, as 256, the end of a string: the codes, their lengths, and the     *)
(* tree in which decode_bytes looks them up, as two lists of the numbers   *)
(* of its nodes.  A leaf has 0 on its left and its value on its right.     *)
(***************************************************************************)
EXTENDS Naturals, Sequences

From0(list) == [n \in 0..(Len(list) - 1) |-> list[n + 1]]

Codes == From0(<<
  8184, 8388568, 268435426, 268435427, 268435428, 268435429, 268435430,
  268435431, 268435432, 16777194, 1073741820, 268435433, 268435434,
  1073741821, 268435435, 268435436, 268435437, 268435438, 268435439,
  268435440, 268435441, 268435442, 1073741822, 268435443, 268435444,
  268435445, 268435446, 268435447, 268435448, 268435449, 268435450,
  268435451, 20, 1016, 1017, 4090, 8185, 21, 248, 2042, 1018, 1019, 249,
  2043, 250, 22, 23, 24, 0, 1, 2, 25, 26, 27, 28, 29, 30, 31, 92, 251, 32764,
  32, 4091, 1020, 8186, 33, 93, 94, 95, 96, 97, 98, 99, 100, 101, 102, 103,
  104, 105, 106, 107, 108, 109, 110, 111, 112, 113, 114, 252, 115, 253, 8187,
  524272, 8188, 16380, 34, 32765, 3, 35, 4, 36, 5, 37, 38, 39, 6, 116, 117,
  40, 41, 42, 7, 43, 118, 44, 8, 9, 45, 119, 120, 121, 122, 123, 32766, 2044,
  16381, 8189, 268435452, 1048550, 4194258, 1048551, 1048552, 4194259,
  4194260, 4194261, 8388569, 4194262, 8388570, 8388571, 8388572, 8388573,
  8388574, 16777195, 8388575, 16777196, 16777197, 4194263, 8388576, 16777198,
  8388577, 8388578, 8388579, 8388580, 2097116, 4194264, 8388581, 4194265,
  8388582, 8388583, 16777199, 4194266, 2097117, 1048553, 4194267, 4194268,
  8388584, 8388585, 2097118, 8388586, 4194269, 4194270, 16777200, 2097119,
  4194271, 8388587, 8388588, 2097120, 2097121, 4194272, 2097122, 8388589,
  4194273, 8388590, 8388591, 1048554, 4194274, 4194275, 4194276, 8388592,
  4194277, 4194278, 8388593, 67108832, 67108833, 1048555, 524273, 4194279,
  8388594, 4194280, 33554412, 67108834, 67108835, 67108836, 134217694,
  134217695, 67108837, 16777201, 33554413, 524274, 2097123, 67108838,
  134217696, 134217697, 67108839, 134217698, 16777202, 2097124, 2097125,
  67108840, 67108841, 268435453, 134217699, 134217700, 134217701, 1048556,
  16777203, 1048557, 2097126, 4194281, 2097127, 2097128, 8388595, 4194282,
  4194283, 33554414, 33554415, 16777204, 16777205, 67108842, 8388596,
  67108843, 134217702, 67108844, 67108845, 134217703, 134217704, 134217705,
  134217706, 134217707, 268435454, 134217708, 134217709, 134217710,
  134217711, 134217712, 67108846, 1073741823>>)

CodeLengths == From0(<<
  13, 23, 28, 28, 28, 28, 28, 28, 28, 24, 30, 28, 28, 30, 28, 28, 28, 28, 28,
  28, 28, 28, 30, 28, 28, 28, 28, 28, 28, 28, 28, 28, 6, 10, 10, 12, 13, 6,
  8, 11, 10, 10, 8, 11, 8, 6, 6, 6, 5, 5, 5, 6, 6, 6, 6, 6, 6, 6, 7, 8, 15,
  6, 12, 10, 13, 6, 7, 7, 7, 7, 7, 7, 7, 7, 7, 7, 7, 7, 7, 7, 7, 7, 7, 7, 7,
  7, 7, 7, 8, 7, 8, 13, 19, 13, 14, 6, 15, 5, 6, 5, 6, 5, 6, 6, 6, 5, 7, 7,
  6, 6, 6, 5, 6, 7, 6, 5, 5, 6, 7, 7, 7, 7, 7, 15, 11, 14, 13, 28, 20, 22,
  20, 20, 22, 22, 22, 23, 22, 23, 23, 23, 23, 23, 24, 23, 24, 24, 22, 23, 24,
  23, 23, 23, 23, 21, 22, 23, 22, 23, 23, 24, 22, 21, 20, 22, 22, 23, 23, 21,
  23, 22, 22, 24, 21, 22, 23, 23, 21, 21, 22, 21, 23, 22, 23, 23, 20, 22, 22,
  22, 23, 22, 22, 23, 26, 26, 20, 19, 22, 23, 22, 25, 26, 26, 26, 27, 27, 26,
  24, 25, 19, 21, 26, 27, 27, 26, 27, 24, 21, 21, 26, 26, 28, 27, 27, 27, 20,
  24, 20, 21, 22, 21, 21, 23, 22, 22, 25, 25, 24, 24, 26, 23, 26, 27, 26, 26,
  27, 27, 27, 27, 27, 28, 27, 27, 27, 27, 27, 26, 30>>)

Left == <<
  1, 2, 3, 4, 5, 0, 0, 8, 0, 0, 11, 12, 0, 0, 15, 0, 0, 18, 19, 20, 0, 0, 23,
  24, 0, 0, 27, 0, 0, 30, 31, 32, 0, 0, 35, 0, 0, 38, 39, 0, 0, 42, 0, 0, 45,
  46, 47, 48, 49, 0, 0, 52, 0, 0, 55, 56, 0, 0, 59, 0, 0, 62, 63, 64, 0, 0,
  67, 0, 0, 70, 71, 0, 0, 74, 75, 0, 0, 78, 0, 0, 81, 82, 83, 84, 85, 0, 0,
  88, 0, 0, 91, 92, 0, 0, 95, 0, 0, 98, 99, 100, 0, 0, 103, 0, 0, 106, 107,
  0, 0, 110, 0, 0, 113, 114, 115, 116, 0, 0, 119, 0, 0, 122, 123, 0, 0, 126,
  0, 0, 129, 130, 131, 0, 0, 134, 0, 0, 137, 138, 139, 0, 0, 142, 0, 0, 145,
  146, 0, 0, 149, 150, 151, 0, 0, 154, 0, 0, 157, 158, 0, 160, 0, 0, 163,
  164, 0, 166, 0, 0, 169, 170, 171, 0, 0, 174, 0, 0, 177, 178, 0, 0, 181,
  182, 0, 0, 185, 186, 0, 0, 189, 0, 191, 192, 193, 194, 0, 0, 197, 0, 199,
  0, 0, 202, 203, 204, 0, 0, 207, 0, 0, 210, 211, 0, 0, 214, 215, 0, 0, 218,
  0, 0, 221, 222, 223, 224, 225, 0, 0, 228, 0, 0, 231, 232, 0, 0, 235, 0, 0,
  238, 239, 240, 0, 242, 0, 0, 245, 246, 0, 0, 249, 0, 0, 252, 253, 254, 0,
  0, 257, 0, 0, 260, 261, 0, 0, 264, 0, 0, 267, 268, 269, 270, 271, 0, 0,
  274, 0, 0, 277, 278, 0, 0, 281, 0, 0, 284, 285, 286, 0, 0, 289, 0, 0, 292,
  293, 294, 0, 0, 297, 0, 0, 300, 301, 0, 0, 304, 0, 0, 307, 308, 309, 310,
  311, 0, 0, 314, 0, 0, 317, 318, 0, 0, 321, 0, 0, 324, 325, 326, 0, 0, 329,
  0, 0, 332, 333, 0, 0, 336, 0, 0, 339, 340, 341, 342, 0, 0, 345, 0, 0, 348,
  349, 0, 351, 0, 0, 354, 355, 0, 0, 358, 0, 0, 361, 362, 363, 364, 0, 0,
  367, 0, 0, 370, 371, 0, 0, 374, 375, 0, 0, 378, 0, 0, 381, 382, 383, 384,
  385, 0, 0, 388, 0, 0, 391, 392, 0, 0, 395, 0, 0, 398, 399, 400, 0, 0, 403,
  0, 0, 406, 407, 0, 0, 410, 0, 412, 0, 0, 415, 416, 417, 418, 419, 0, 0,
  422, 0, 0, 425, 426, 0, 0, 429, 0, 0, 432, 433, 434, 0, 0, 437, 0, 0, 440,
  441, 0, 0, 444, 0, 0, 447, 448, 449, 450, 0, 452, 0, 0, 455, 456, 0, 0,
  459, 0, 0, 462, 463, 464, 0, 0, 467, 0, 0, 470, 471, 0, 0, 474, 0, 0, 477,
  478, 479, 480, 0, 0, 483, 0, 0, 486, 487, 0, 0, 490, 0, 0, 493, 494, 495,
  0, 0, 498, 0, 0, 501, 502, 0, 0, 505, 0, 507, 508, 0, 0, 511, 0, 0>>

Right == <<
  44, 17, 10, 7, 6, 48, 49, 9, 50, 97, 14, 13, 99, 101, 16, 105, 111, 29, 22,
  21, 115, 116, 26, 25, 32, 37, 28, 45, 46, 37, 34, 33, 47, 51, 36, 52, 53,
  41, 40, 54, 55, 43, 56, 57, 80, 61, 54, 51, 50, 61, 65, 53, 95, 98, 58, 57,
  100, 102, 60, 103, 104, 69, 66, 65, 108, 109, 68, 110, 112, 73, 72, 114,
  117, 77, 76, 58, 66, 79, 67, 68, 112, 97, 90, 87, 86, 69, 70, 89, 71, 72,
  94, 93, 73, 74, 96, 75, 76, 105, 102, 101, 77, 78, 104, 79, 80, 109, 108,
  81, 82, 111, 83, 84, 128, 121, 118, 117, 85, 86, 120, 87, 89, 125, 124,
  106, 107, 127, 113, 118, 136, 133, 132, 119, 120, 135, 121, 122, 144, 141,
  140, 38, 42, 143, 44, 59, 148, 147, 88, 90, 156, 153, 152, 33, 34, 155, 40,
  41, 162, 159, 63, 161, 39, 43, 168, 165, 124, 167, 35, 62, 176, 173, 172,
  0, 36, 175, 64, 91, 180, 179, 93, 126, 184, 183, 94, 125, 188, 187, 60, 96,
  190, 123, 220, 201, 196, 195, 92, 195, 198, 208, 200, 128, 130, 209, 206,
  205, 131, 162, 208, 184, 194, 213, 212, 224, 226, 217, 216, 153, 161, 219,
  167, 172, 266, 237, 230, 227, 226, 176, 177, 229, 179, 209, 234, 233, 216,
  217, 236, 227, 229, 251, 244, 241, 230, 243, 129, 132, 248, 247, 133, 134,
  250, 136, 146, 259, 256, 255, 154, 156, 258, 160, 163, 263, 262, 164, 169,
  265, 170, 173, 306, 283, 276, 273, 272, 178, 181, 275, 185, 186, 280, 279,
  187, 189, 282, 190, 196, 291, 288, 287, 198, 228, 290, 232, 233, 299, 296,
  295, 1, 135, 298, 137, 138, 303, 302, 139, 140, 305, 141, 143, 338, 323,
  316, 313, 312, 147, 149, 315, 150, 151, 320, 319, 152, 155, 322, 157, 158,
  331, 328, 327, 165, 166, 330, 168, 174, 335, 334, 175, 180, 337, 182, 183,
  360, 347, 344, 343, 188, 191, 346, 197, 231, 353, 350, 239, 352, 9, 142,
  357, 356, 144, 145, 359, 148, 159, 380, 369, 366, 365, 171, 206, 368, 215,
  225, 373, 372, 236, 237, 377, 376, 199, 207, 379, 234, 235, 414, 397, 390,
  387, 386, 192, 193, 389, 200, 201, 394, 393, 202, 205, 396, 210, 213, 405,
  402, 401, 218, 219, 404, 238, 240, 409, 408, 242, 243, 411, 255, 413, 203,
  204, 446, 431, 424, 421, 420, 211, 212, 423, 214, 221, 428, 427, 222, 223,
  430, 241, 244, 439, 436, 435, 245, 246, 438, 247, 248, 443, 442, 250, 251,
  445, 252, 253, 476, 461, 454, 451, 254, 453, 2, 3, 458, 457, 4, 5, 460, 6,
  7, 469, 466, 465, 8, 11, 468, 12, 14, 473, 472, 15, 16, 475, 17, 18, 492,
  485, 482, 481, 19, 20, 484, 21, 23, 489, 488, 24, 25, 491, 26, 27, 500,
  497, 496, 28, 29, 499, 30, 31, 504, 503, 127, 220, 506, 249, 510, 509, 10,
  13, 512, 22, 256>>

Tree == [n \in 0..(Len(Left) - 1) |-> [left |-> Left[n + 1], right |-> Right[n + 1]]]
=============================================================================
