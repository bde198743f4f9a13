\* Two buf() values of the same length, of up to BufLen bytes, compared with ==.
CONSTANTS
  Bytes = {0, 1, 2}
  MaxSize = 3
  MaxN = 4
  Elems = {0, 1}
  ArrLen = 2
  BufLen = 2
SPECIFICATION Spec
INVARIANT BufEqCorrect
