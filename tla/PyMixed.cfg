CONSTANTS
  Inputs = {a, b}
  First = a
  Outputs = {o, p}
  Vals = {a, b}
  Flat = flat
  Other = other
  Null = null
  None = none
  Slots <- OneColumn
  Asked = {o}
  InType <- Numbers
  Clients = {"python"}
  RowCounts = {1}
  Batches = {1, 2, 3}
  Lent = {}
  Types = {}
  Scored <- Mixed
  Strings <- NoFrames
SPECIFICATION ClientSpec
INVARIANTS ProbaOfThisFrame
