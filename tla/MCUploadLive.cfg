SPECIFICATION FairSpec
CONSTANTS
  s1 = s1
  s2 = s2
  game1 = game1
  game2 = game2
  large = large
  plain = plain
  a = a
  b = b
  p = p
  art = art
  Sessions = {s1}
  Items = {game1, game2, large, plain}
  Files = {a, b, p}
  Images = {art}
  FilesOf <- MCFilesOf
  ImageOf <- MCImageOf
  Chunks <- MCChunks
  Plain = {p}
  CompressedSize <- MCCompressedSize
  NoItem = NoItem
  NoFile = NoFile
  Absent = Absent
  Corrupt = Corrupt
  MaxCuts = 3
PROPERTY RetriesSucceed
